---- MODULE Spec2Model ----
(***************************************************************************)
(* Check-fraud decision pipeline of src/check_fraud: the stage runner      *)
(* (graph/workflow.py), the record merge (graph/state.py), the analyzer    *)
(* stages' verdict derivation (agents/*.py) and the weighted voting        *)
(* aggregator (agents/voting_aggregator.py).                               *)
(*                                                                         *)
(* Numbers.  A confidence or score c in [0,1] is the integer c * One.      *)
(* An analyzer weight w is the integer 10 * w.  Quotients (normalized      *)
(* scores, the final confidence, the risk average) are exact fractions     *)
(* [n |-> numerator, d |-> denominator] with d > 0, compared by cross      *)
(* multiplication, so a threshold test is the test on the exact value.     *)
(***************************************************************************)
EXTENDS Integers, Sequences, FiniteSets, TLC

\* models.py:104  confidence: float = Field(ge=0.0, le=1.0); One is 1.0
One == 10000

----------------------------------------------------------------------------
(* Exact fractions *)

Frac(n, d) == [n |-> n, d |-> d]
FGt(a, b) == a.n * b.d > b.n * a.d
FGe(a, b) == a.n * b.d >= b.n * a.d
FEq(a, b) == a.n * b.d = b.n * a.d
FMax(a, b) == IF FGt(b, a) THEN b ELSE a      \* Python max(a, b)
FMin(a, b) == IF FGt(a, b) THEN b ELSE a      \* Python min(a, b)

----------------------------------------------------------------------------
(* database/models.py *)

FraudVerdict == {"fraud", "not_fraud", "review", "unknown"}
RiskLevel == {"low", "medium", "high", "critical"}

AgentVerdict(name, verdict, confidence, risk_level) ==
    [agent_name |-> name, verdict |-> verdict,
     confidence |-> confidence, risk_level |-> risk_level]

\* Faulty variant: a confidence field without the ge/le constraint
AnyConfidence(confidence) == TRUE

\* AgentVerdict.confidence: float = Field(ge=0.0, le=1.0); constructing an
\* AgentVerdict with any other confidence raises ValidationError
ConfidenceValid(confidence) == 0 <= confidence /\ confidence <= One

CHECK_AGENT == "check_analysis_agent"
TRANSACTION_AGENT == "transaction_history_agent"
POLICY_AGENT == "policy_analysis_agent"
GENERIC_AGENT == "generic_fraud_agent"

----------------------------------------------------------------------------
(* graph/state.py *)

\* Faulty variant: a reducer that appends without looking at agent_name
concat_verdicts(existing, new) == existing \o new

\* merge_verdicts: the reducer attached to FraudDetectionState.agent_verdicts
merge_verdicts(existing, new) ==
    LET RECURSIVE Loop(_, _)
        Loop(merged, rest) ==
            IF rest = <<>> THEN merged
            ELSE LET verdict == Head(rest)
                     existing_agents == {merged[i].agent_name : i \in DOMAIN merged}
                 IN  IF verdict.agent_name \notin existing_agents
                     THEN Loop(Append(merged, verdict), Tail(rest))
                     ELSE Loop(merged, Tail(rest))
    IN  Loop(existing, new)

\* create_initial_state(check, client)
create_initial_state(client) ==
    [client |-> client,
     agent_verdicts |-> <<>>,
     final_verdict |-> "None",
     final_confidence |-> Frac(0, 1),
     final_risk_level |-> "None",
     consensus_reached |-> FALSE,
     voting_summary |-> [total_agents |-> 0],
     all_flags |-> <<>>,
     processing_errors |-> <<>>,
     current_step |-> "initialized"]

\* The keys of the record whose values are lists, in the record and in every
\* partial update (FraudDetectionState's List[...] fields).
ListKeys == {"agent_verdicts", "all_flags", "processing_errors"}

\* The graph's state update for FraudDetectionState: a key annotated with a
\* reducer is reduced, every other key of the partial update overwrites.
GraphUpdate(st, upd) ==
    [k \in DOMAIN st |->
        IF k \in DOMAIN upd
        THEN IF k = "agent_verdicts" THEN merge_verdicts(st[k], upd[k])
             ELSE upd[k]
        ELSE st[k]]

----------------------------------------------------------------------------
(* graph/workflow.py: _merge_state *)

\* hasattr(item, 'agent_name') ? item.agent_name : str(item)
ItemId(key, item) == IF key = "agent_verdicts" THEN item.agent_name ELSE item

_merge_state(base_state, new_result) ==
    LET RECURSIVE Loop(_, _, _)
        Loop(key, merged, rest) ==
            IF rest = <<>> THEN merged
            ELSE LET item == Head(rest)
                     existing_items == {ItemId(key, merged[i]) : i \in DOMAIN merged}
                 IN  IF ItemId(key, item) \notin existing_items
                     THEN Loop(key, Append(merged, item), Tail(rest))
                     ELSE Loop(key, merged, Tail(rest))
    IN  [key \in DOMAIN base_state \cup DOMAIN new_result |->
            IF key \in DOMAIN new_result
            THEN IF key \in DOMAIN base_state /\ key \in ListKeys
                 THEN Loop(key, base_state[key], new_result[key])
                 ELSE new_result[key]
            ELSE base_state[key]]

----------------------------------------------------------------------------
(* agents/voting_aggregator.py *)

\* VotingAggregator.DEFAULT_WEIGHTS (1.0, 1.0, 1.2, 1.5)
DEFAULT_WEIGHTS ==
    (CHECK_AGENT :> 10) @@ (TRANSACTION_AGENT :> 10) @@
    (POLICY_AGENT :> 12) @@ (GENERIC_AGENT :> 15)

\* self.weights.get(verdict.agent_name, 1.0)
WeightOf(w, name) == IF name \in DOMAIN w THEN w[name] ELSE 10

\* weight * verdict.confidence
EffectiveWeight(w, v) == WeightOf(w, v.agent_name) * v.confidence

\* The classes weighted_scores is initialised with (voting_aggregator.py:73-77)
ScoredClasses == {"fraud", "not_fraud", "review"}

\* weighted_scores[verdict.verdict] += ... raises KeyError for an outcome that
\* is no key of weighted_scores.
SummaryRaises(verdicts) ==
    \E i \in DOMAIN verdicts : verdicts[i].verdict \notin ScoredClasses

_calculate_voting_summary(w, verdicts) ==
    LET RECURSIVE Score(_, _)
        Score(cls, i) ==
            IF i = 0 THEN 0
            ELSE Score(cls, i - 1) +
                 (IF verdicts[i].verdict = cls
                  THEN EffectiveWeight(w, verdicts[i]) ELSE 0)
        RECURSIVE Total(_)
        Total(i) == IF i = 0 THEN 0
                    ELSE Total(i - 1) + EffectiveWeight(w, verdicts[i])
        weighted_scores == [cls \in ScoredClasses |-> Score(cls, Len(verdicts))]
        total_weight == Total(Len(verdicts))
    IN  [total_agents |-> Len(verdicts),
         vote_counts |->
            [cls \in {verdicts[i].verdict : i \in DOMAIN verdicts} |->
                Cardinality({i \in DOMAIN verdicts : verdicts[i].verdict = cls})],
         weighted_scores |-> weighted_scores,
         normalized_scores |->
            IF total_weight > 0
            THEN [cls \in ScoredClasses |-> Frac(weighted_scores[cls], total_weight)]
            ELSE [cls \in FraudVerdict |-> Frac(0, 1)],
         total_weight |-> total_weight]

\* normalized.get(cls, 0)
NormalizedGet(summary, cls) ==
    IF cls \in DOMAIN summary.normalized_scores
    THEN summary.normalized_scores[cls] ELSE Frac(0, 1)

\* Faulty variant: the critical-fraud override asks for a positive confidence
any_critical_fraud_confident(verdicts) ==
    \E i \in DOMAIN verdicts :
        /\ verdicts[i].verdict = "fraud" /\ verdicts[i].risk_level = "critical"
        /\ verdicts[i].confidence > 0

\* Faulty variant: the override looks at the risk level only
any_critical_risk(verdicts) ==
    \E i \in DOMAIN verdicts : verdicts[i].risk_level = "critical"

\* any(v.verdict == FRAUD and v.risk_level == CRITICAL for v in verdicts)
any_critical_fraud(verdicts) ==
    \E i \in DOMAIN verdicts :
        verdicts[i].verdict = "fraud" /\ verdicts[i].risk_level = "critical"

\* Faulty variant: score >= threshold
AtOrAbove(score, threshold) == FGe(score, threshold)

\* score > threshold, as written in each of the score rules
Above(score, threshold) == FGt(score, threshold)

\* Returns <<final verdict, final confidence>>.
_determine_final_verdict(verdicts, summary) ==
    LET fraud_score == NormalizedGet(summary, "fraud")
        not_fraud_score == NormalizedGet(summary, "not_fraud")
        review_score == NormalizedGet(summary, "review")
    IN  IF any_critical_fraud(verdicts)
        THEN <<"fraud", FMax(Frac(17, 20), fraud_score)>>
        ELSE IF Above(fraud_score, Frac(1, 2))
        THEN \* 0.6 + (fraud_score - 0.5) * 0.8, at most 0.95
             <<"fraud", FMin(Frac(2 * fraud_score.d + 8 * fraud_score.n,
                                  10 * fraud_score.d), Frac(19, 20))>>
        ELSE IF Above(not_fraud_score, Frac(3, 5))
        THEN \* 0.6 + (not_fraud_score - 0.6) * 0.8, at most 0.95
             <<"not_fraud", FMin(Frac(3 * not_fraud_score.d + 20 * not_fraud_score.n,
                                      25 * not_fraud_score.d), Frac(19, 20))>>
        ELSE IF Above(fraud_score, Frac(3, 10)) \/ Above(review_score, Frac(3, 10))
        THEN \* 0.5 + review_score * 0.3, at most 0.85
             <<"review", FMin(Frac(5 * review_score.d + 3 * review_score.n,
                                   10 * review_score.d), Frac(17, 20))>>
        ELSE \* not_fraud_score + 0.3
             <<"not_fraud", Frac(10 * not_fraud_score.n + 3 * not_fraud_score.d,
                                 10 * not_fraud_score.d)>>

\* Faulty variant: ordinals counted from 0
RiskOrdinalFromZero(level) ==
    CASE level = "low" -> 0
      [] level = "medium" -> 1
      [] level = "high" -> 2
      [] level = "critical" -> 3

\* Faulty variant: high weighs as much as critical
RiskOrdinalHighAsCritical(level) ==
    CASE level = "low" -> 1
      [] level = "medium" -> 2
      [] level = "high" -> 4
      [] level = "critical" -> 4

\* risk_scores (voting_aggregator.py:156-161)
RiskOrdinal(level) ==
    CASE level = "low" -> 1
      [] level = "medium" -> 2
      [] level = "high" -> 3
      [] level = "critical" -> 4

_determine_final_risk_level(w, verdicts) ==
    LET RECURSIVE WRisk(_)
        WRisk(i) == IF i = 0 THEN 0
                    ELSE WRisk(i - 1) +
                         RiskOrdinal(verdicts[i].risk_level) * EffectiveWeight(w, verdicts[i])
        RECURSIVE Total(_)
        Total(i) == IF i = 0 THEN 0
                    ELSE Total(i - 1) + EffectiveWeight(w, verdicts[i])
        weighted_risk == WRisk(Len(verdicts))
        total_weight == Total(Len(verdicts))
        avg_risk == IF total_weight > 0 THEN Frac(weighted_risk, total_weight)
                    ELSE Frac(2, 1)
        \* max(verdicts, key=risk ordinal).risk_level: the first verdict of
        \* the largest ordinal
        max_risk ==
            LET i == CHOOSE j \in DOMAIN verdicts :
                        \A k \in DOMAIN verdicts :
                            RiskOrdinal(verdicts[k].risk_level)
                                <= RiskOrdinal(verdicts[j].risk_level)
            IN  verdicts[i].risk_level
    IN  IF FGe(avg_risk, Frac(7, 2)) \/ max_risk = "critical" THEN "critical"
        ELSE IF FGe(avg_risk, Frac(5, 2)) THEN "high"
        ELSE IF FGe(avg_risk, Frac(3, 2)) THEN "medium"
        ELSE "low"

\* Faulty variant: a simple majority (matching / len(verdicts) >= 0.5)
_check_consensus_half(verdicts, final_verdict) ==
    IF Len(verdicts) < 2 THEN TRUE
    ELSE 2 * Cardinality({i \in DOMAIN verdicts : verdicts[i].verdict = final_verdict})
            >= Len(verdicts)

_check_consensus(verdicts, final_verdict) ==
    IF Len(verdicts) < 2 THEN TRUE
    ELSE LET matching ==
                Cardinality({i \in DOMAIN verdicts : verdicts[i].verdict = final_verdict})
         IN  \* matching / len(verdicts) >= 0.6
             10 * matching >= 6 * Len(verdicts)

\* Faulty variant: the result for no verdicts carries the label of the
\* ordinary result
_no_verdicts_result_voting_complete ==
    [final_verdict |-> "review",
     final_confidence |-> Frac(0, 1),
     final_risk_level |-> "medium",
     consensus_reached |-> FALSE,
     voting_summary |-> [total_agents |-> 0, error |-> "No agent verdicts available"],
     current_step |-> "voting_complete"]

_no_verdicts_result ==
    [final_verdict |-> "review",
     final_confidence |-> Frac(0, 1),
     final_risk_level |-> "medium",
     consensus_reached |-> FALSE,
     voting_summary |-> [total_agents |-> 0, error |-> "No agent verdicts available"],
     current_step |-> "voting_complete_no_verdicts"]

\* Python list(set(xs)): the distinct items of xs.  Their order is decided by
\* string hashing; the sequence built here stands for any of its permutations.
ListOfSet(xs) ==
    LET RECURSIVE Dedup(_, _)
        Dedup(seen, rest) ==
            IF rest = <<>> THEN seen
            ELSE IF Head(rest) \in {seen[i] : i \in DOMAIN seen}
            THEN Dedup(seen, Tail(rest))
            ELSE Dedup(Append(seen, Head(rest)), Tail(rest))
    IN  Dedup(<<>>, xs)

\* VotingAggregator.aggregate for a record whose summary can be computed
aggregate(w, st) ==
    LET verdicts == st.agent_verdicts
    IN  IF verdicts = <<>> THEN _no_verdicts_result
        ELSE LET voting_summary == _calculate_voting_summary(w, verdicts)
                 final == _determine_final_verdict(verdicts, voting_summary)
             IN  [final_verdict |-> final[1],
                  final_confidence |-> final[2],
                  final_risk_level |-> _determine_final_risk_level(w, verdicts),
                  consensus_reached |-> _check_consensus(verdicts, final[1]),
                  voting_summary |-> voting_summary,
                  all_flags |-> ListOfSet(st.all_flags),
                  current_step |-> "voting_complete"]

\* Faulty variant: no guard for the empty list, max() of no verdicts raises
AggregateRaisesOnEmpty(st) ==
    st.agent_verdicts = <<>> \/ SummaryRaises(st.agent_verdicts)

\* aggregate raises exactly when a verdict list is non-empty and the summary
\* raises.
AggregateRaises(st) ==
    st.agent_verdicts # <<>> /\ SummaryRaises(st.agent_verdicts)

----------------------------------------------------------------------------
(* tools/*.py: the document analyzers the physical stage folds.            *)
(* A check's metadata is md = [flags, quality, device, source, micr]:      *)
(* quality is metadata["image_quality_score"] (NoScore when absent), micr  *)
(* is the class of MICRValidator.validate's result.                        *)

NoScore == -1

MetadataFlags == {"missing_watermark", "missing_signature",
                  "altered_amount_suspected", "duplicate_check_number_pattern"}
QualityScores == {NoScore, 0, 2000, 4500, 6500, 8500}
Devices == {"", "emulator", "rooted android", "unknown"}
Sources == {"mobile_deposit", "atm_deposit", "branch"}
MicrClasses == {"missing", "routing_invalid", "many_anomalies", "anomalies", "valid"}

Metadata ==
    [flags : SUBSET MetadataFlags, quality : QualityScores, device : Devices,
     source : Sources, micr : MicrClasses]

\* metadata.get("image_quality_score", 0.85)
QualityOr85(md) == IF md.quality = NoScore THEN 8500 ELSE md.quality

\* WatermarkDetector._analyze_simulated: watermark_detected
WatermarkDetected(check, md) ==
    check.has_watermark /\ "missing_watermark" \notin md.flags

\* WatermarkDetector._analyze_simulated: confidence (the random confidence
\* 0.85 + U(0, 0.1) by its lower end; only "< 0.7" is ever asked of it)
WatermarkConfidence(check, md) ==
    IF ~check.has_watermark THEN 9500
    ELSE IF "missing_watermark" \in md.flags THEN 9200
    ELSE IF QualityOr85(md) < 5000 THEN 6000
    ELSE 8500

\* WatermarkDetector.get_risk_assessment: risk_score
WatermarkRisk(check, md) ==
    IF ~WatermarkDetected(check, md) THEN 9500
    ELSE IF WatermarkConfidence(check, md) < 7000 THEN 7000
    ELSE IF QualityOr85(md) < 5000 THEN 4000     \* result.anomalies
    ELSE 1000

\* SignatureAnalyzer.analyze:
\* [signature_present, signature_valid, confidence, match_score, forgery]
SignatureResult(check, md) ==
    IF ~check.signature_present \/ "missing_signature" \in md.flags
    THEN [present |-> FALSE, valid |-> FALSE, confidence |-> 9800,
          match_score |-> NoScore, forgery |-> FALSE]
    ELSE IF "altered_amount_suspected" \in md.flags
    THEN [present |-> TRUE, valid |-> FALSE, confidence |-> 7500,
          match_score |-> 4500, forgery |-> TRUE]
    ELSE IF QualityOr85(md) # 0 /\ QualityOr85(md) < 5000
    THEN [present |-> TRUE, valid |-> TRUE, confidence |-> 5500,
          match_score |-> 6000, forgery |-> FALSE]
    ELSE [present |-> TRUE, valid |-> TRUE, confidence |-> 8800,
          match_score |-> 9000, forgery |-> FALSE]

\* SignatureAnalyzer.get_risk_assessment: risk_score
SignatureRisk(sig) ==
    IF ~sig.present THEN 9900
    ELSE IF ~sig.valid THEN 8000
    ELSE IF sig.forgery THEN 7000
    ELSE IF sig.confidence < 7000 THEN 5000
    ELSE IF sig.match_score # NoScore /\ sig.match_score # 0 /\ sig.match_score < 8500
    THEN 4000
    ELSE 1000

\* MICRValidator.validate: micr_valid
MicrValid(md) == md.micr = "valid"

\* MICRValidator.get_risk_assessment: risk_score
MicrRisk(md) ==
    CASE md.micr = "missing" -> 9500
      [] md.micr = "routing_invalid" -> 9000
      [] md.micr = "many_anomalies" -> 7000
      [] md.micr = "anomalies" -> 4000
      [] md.micr = "valid" -> 500

\* ImageQualityAnalyzer._simulate_quality_analysis: overall_score.  The code
\* subtracts doubles from 0.85; 0.85 - 0.05 is one ulp below 0.8 and the
\* results on the mobile_deposit path stay below the decimal value, which is
\* kept here as one unit less.
SimulatedScore(md) ==
    LET afterSource ==
            IF md.source = "mobile_deposit" THEN 8500 - 500 - 1
            ELSE IF md.source = "atm_deposit" THEN 8500 - 1000
            ELSE 8500
        afterDevice ==
            IF md.device = "emulator" THEN afterSource - 3000
            ELSE IF md.device = "rooted android" THEN afterSource - 1500
            ELSE IF md.device = "unknown" THEN afterSource - 1000
            ELSE afterSource
        base_score ==
            IF "altered_amount_suspected" \in md.flags THEN afterDevice - 2000
            ELSE afterDevice
    IN  IF base_score < 1000 THEN 1000 ELSE base_score

\* ImageQualityAnalyzer.analyze: [overall_score, issues non-empty]
ImageResult(md) ==
    IF md.quality # NoScore
    THEN [overall_score |-> md.quality,
          issues |-> md.quality < 7000 \/ md.device = "emulator"]
    ELSE [overall_score |-> SimulatedScore(md),
          issues |-> \/ md.source = "atm_deposit"
                     \/ md.device # ""
                     \/ "altered_amount_suspected" \in md.flags]

\* ImageQualityAnalyzer.get_risk_assessment: risk_score
ImageRisk(img) ==
    IF img.overall_score < 3000 THEN 8000
    ELSE IF img.overall_score < 6000 THEN 5000
    ELSE IF img.issues THEN 3000
    ELSE 1000

\* ImageQualityAnalyzer.check_for_manipulation:
\* [manipulation_detected, confidence]
ManipulationCheck(md) ==
    LET altered == "altered_amount_suspected" \in md.flags
        duplicate == "duplicate_check_number_pattern" \in md.flags
        emulator == md.device = "emulator"
        lowq == QualityOr85(md) # 0 /\ QualityOr85(md) < 5000
        confidence == (IF altered THEN 4000 ELSE 0) + (IF duplicate THEN 3000 ELSE 0)
                      + (IF emulator THEN 5000 ELSE 0) + (IF lowq THEN 2000 ELSE 0)
    IN  [manipulation_detected |-> altered \/ duplicate \/ emulator \/ lowq,
         confidence |-> IF confidence > One THEN One ELSE confidence]

Max(a, b) == IF b > a THEN b ELSE a
Min(a, b) == IF b < a THEN b ELSE a

\* <<f_1, ..., f_n>> restricted to the flags whose condition holds, in order
Flagged(pairs) ==
    LET RECURSIVE Keep(_)
        Keep(i) == IF i = 0 THEN <<>>
                   ELSE IF pairs[i][2] THEN Append(Keep(i - 1), pairs[i][1])
                   ELSE Keep(i - 1)
    IN  Keep(Len(pairs))

----------------------------------------------------------------------------
(* agents/check_analysis_agent.py *)

\* CheckAnalysisAgent.analyze: physical_flags
PhysicalFlags(check, md) ==
    LET sig == SignatureResult(check, md)
    IN  Flagged(<< <<"missing_watermark", ~WatermarkDetected(check, md)>>,
                   <<"missing_signature", ~sig.present>>,
                   <<"forgery_indicators", sig.present /\ sig.forgery>>,
                   <<"invalid_micr", ~MicrValid(md)>>,
                   <<"low_image_quality", ImageResult(md).overall_score < 6000>>,
                   <<"manipulation_suspected",
                     ManipulationCheck(md).manipulation_detected>> >>)

\* CheckAnalysisAgent.analyze: overall_risk
OverallPhysicalRisk(check, md) ==
    LET overall_risk ==
            Max(Max(WatermarkRisk(check, md), SignatureRisk(SignatureResult(check, md))),
                Max(MicrRisk(md), ImageRisk(ImageResult(md))))
        manipulation_check == ManipulationCheck(md)
    IN  IF manipulation_check.manipulation_detected
        THEN Max(overall_risk, manipulation_check.confidence)
        ELSE overall_risk

\* CheckAnalysisAgent._determine_verdict
CheckDetermineVerdict(risk, flags) ==
    LET flagset == {flags[i] : i \in DOMAIN flags}
        has_critical ==
            {"missing_signature", "invalid_micr", "manipulation_suspected"}
                \cap flagset # {}
        has_high_risk == {"missing_watermark", "forgery_indicators"} \cap flagset # {}
    IN  IF has_critical \/ risk >= 8000
        THEN AgentVerdict(CHECK_AGENT, "fraud", Min(9500, risk + 1000), "critical")
        ELSE IF has_high_risk \/ risk >= 6000
        THEN AgentVerdict(CHECK_AGENT, "review", risk, "high")
        ELSE IF risk >= 4000
        THEN AgentVerdict(CHECK_AGENT, "review", risk, "medium")
        ELSE AgentVerdict(CHECK_AGENT, "not_fraud", One - risk, "low")

\* CheckAnalysisAgent.analyze: the partial update
CheckAnalyze(check, md) ==
    LET physical_flags == PhysicalFlags(check, md)
    IN  [agent_verdicts |->
            <<CheckDetermineVerdict(OverallPhysicalRisk(check, md), physical_flags)>>,
         all_flags |-> physical_flags,
         current_step |-> "check_analysis_complete"]

----------------------------------------------------------------------------
(* agents/transaction_history_agent.py *)
(* The repository's answers for a known client are the input                *)
(* h = [severity, is_known, is_suspicious, is_self_payee, is_unusual,       *)
(*      is_new_account, large, high_anomaly, risk_score].                   *)

AmountSeverities == {"low", "medium", "high", "critical"}
\* Client.risk_score is an unconstrained float (0.0, 0.5, 1.0 and -6.0)
ClientRiskScores == {-6 * One, 0, One \div 2, One}

History ==
    [severity : AmountSeverities, is_known : BOOLEAN, is_suspicious : BOOLEAN,
     is_self_payee : BOOLEAN, is_unusual : BOOLEAN, is_new_account : BOOLEAN,
     large : BOOLEAN, high_anomaly : BOOLEAN, risk_score : ClientRiskScores]

\* TransactionHistoryAgent._determine_verdict: risk_score
HistoryRiskScore(h) ==
    LET risk_score ==
              (CASE h.severity = "critical" -> 5000
                 [] h.severity = "high" -> 3000
                 [] h.severity = "medium" -> 1500
                 [] OTHER -> 0)
            + (IF h.is_suspicious THEN 2500 ELSE IF ~h.is_known THEN 1000 ELSE 0)
            + (IF h.is_self_payee THEN 1500 ELSE 0)
            + (IF h.is_unusual THEN 2000 ELSE 0)
            + (IF h.is_new_account THEN 1000 ELSE 0)
            + (h.risk_score * 2) \div 10
    IN  Min(risk_score, One)

Abs(x) == IF x < 0 THEN -x ELSE x

\* Faulty variant: the highest tier is review with risk critical
TransactionDetermineVerdictReviewCritical(h) ==
    LET risk_score == HistoryRiskScore(h)
        confidence == 7000 + (3 * (One - Abs(risk_score - 5000) * 2)) \div 10
    IN  IF risk_score >= 7000
        THEN AgentVerdict(TRANSACTION_AGENT, "review", confidence, "critical")
        ELSE IF risk_score >= 5000
        THEN AgentVerdict(TRANSACTION_AGENT, "review", confidence, "high")
        ELSE IF risk_score >= 3000
        THEN AgentVerdict(TRANSACTION_AGENT, "review", confidence, "medium")
        ELSE AgentVerdict(TRANSACTION_AGENT, "not_fraud", confidence, "low")

\* TransactionHistoryAgent._determine_verdict
TransactionDetermineVerdict(h) ==
    LET risk_score == HistoryRiskScore(h)
        \* 0.7 + (0.3 * (1 - abs(risk_score - 0.5) * 2))
        confidence == 7000 + (3 * (One - Abs(risk_score - 5000) * 2)) \div 10
    IN  IF risk_score >= 7000
        THEN AgentVerdict(TRANSACTION_AGENT, "fraud", confidence, "critical")
        ELSE IF risk_score >= 5000
        THEN AgentVerdict(TRANSACTION_AGENT, "review", confidence, "high")
        ELSE IF risk_score >= 3000
        THEN AgentVerdict(TRANSACTION_AGENT, "review", confidence, "medium")
        ELSE AgentVerdict(TRANSACTION_AGENT, "not_fraud", confidence, "low")

\* TransactionHistoryAgent.analyze: historical_flags, the agent's own flags
\* followed by TransactionDatabase.analyze_check_against_history's
HistoricalFlags(h) ==
    Flagged(<< <<"amount_anomaly", h.severity # "low">>,
               <<"unknown_payee", ~h.is_known>>,
               <<"unusual_velocity", h.is_unusual>>,
               <<"new_account_large_transaction", h.is_new_account /\ h.large>>,
               <<"high_amount_anomaly", h.high_anomaly>>,
               <<"unknown_payee", ~h.is_known>>,
               <<"new_account_large_transaction", h.is_new_account /\ h.large>>,
               <<"rapid_succession_deposits", h.is_unusual>>,
               <<"self_payee", h.is_self_payee>> >>)

\* TransactionHistoryAgent._handle_unknown_client
\* Faulty variant: the unknown client gets a flag and no verdict
_handle_unknown_client_without_verdict ==
    [client |-> "None",
     agent_verdicts |-> <<>>,
     all_flags |-> <<"unknown_client">>,
     current_step |-> "transaction_analysis_complete"]

_handle_unknown_client ==
    [client |-> "None",
     agent_verdicts |-> <<AgentVerdict(TRANSACTION_AGENT, "review", 6000, "high")>>,
     all_flags |-> <<"unknown_client">>,
     current_step |-> "transaction_analysis_complete"]

\* TransactionHistoryAgent.analyze: the partial update; found is whether the
\* repository knows the check's client_id
TransactionAnalyze(found, h) ==
    IF ~found THEN _handle_unknown_client
    ELSE [client |-> "repository",
          agent_verdicts |-> <<TransactionDetermineVerdict(h)>>,
          all_flags |-> HistoricalFlags(h),
          current_step |-> "transaction_analysis_complete"]

----------------------------------------------------------------------------
(* agents/policy_agent.py *)
(* PolicyDatabase.evaluate_check returns the violated policies in the      *)
(* order of the policy table; a violation is [policy_id, severity, action].*)

\* database/sample_data.py create_fraud_policies: POL001, POL003 and POL006
\* by id, severity and action
Policies ==
    << [policy_id |-> "POL001", severity |-> "high", action |-> "flag_for_review"],
       [policy_id |-> "POL003", severity |-> "critical", action |-> "reject"],
       [policy_id |-> "POL006", severity |-> "medium", action |-> "flag_for_review"] >>

\* f"policy_{violation['policy_id']}"
PolicyFlag(policy_id) ==
    CASE policy_id = "POL001" -> "policy_POL001"
      [] policy_id = "POL003" -> "policy_POL003"
      [] policy_id = "POL006" -> "policy_POL006"

\* The violation lists evaluate_check can return: the subsequences of Policies
ViolationLists ==
    LET RECURSIVE Pick(_, _)
        Pick(S, i) == IF i > Len(Policies) THEN <<>>
                      ELSE IF i \in S THEN <<Policies[i]>> \o Pick(S, i + 1)
                      ELSE Pick(S, i + 1)
    IN  {Pick(S, 1) : S \in SUBSET DOMAIN Policies}

\* sum(1 for v in violations if v[key] == value)
CountWhere(violation_list, key, value) ==
    Cardinality({i \in DOMAIN violation_list : violation_list[i][key] = value})

\* Faulty variant: one high and one medium violation already give fraud/high
PolicyDetermineVerdictOneMedium(violation_list) ==
    LET critical_count == CountWhere(violation_list, "severity", "critical")
        high_count == CountWhere(violation_list, "severity", "high")
        medium_count == CountWhere(violation_list, "severity", "medium")
        reject_actions == CountWhere(violation_list, "action", "reject")
    IN  IF violation_list = <<>>
        THEN AgentVerdict(POLICY_AGENT, "not_fraud", 8500, "low")
        ELSE IF reject_actions > 0 \/ critical_count > 0
        THEN AgentVerdict(POLICY_AGENT, "fraud",
                          Min(9000 + 200 * critical_count, 9800), "critical")
        ELSE IF high_count >= 2 \/ (high_count >= 1 /\ medium_count >= 1)
        THEN AgentVerdict(POLICY_AGENT, "fraud",
                          Min(7500 + 500 * high_count, 9800), "high")
        ELSE IF high_count >= 1
        THEN AgentVerdict(POLICY_AGENT, "review", 7000, "high")
        ELSE IF medium_count >= 2
        THEN AgentVerdict(POLICY_AGENT, "review", 6500, "medium")
        ELSE AgentVerdict(POLICY_AGENT, "review", 6000, "low")

\* A variant of _determine_verdict whose medium tier asks for exactly two
\* medium violations
PolicyDetermineVerdictExactlyTwoMedium(violation_list) ==
    LET critical_count == CountWhere(violation_list, "severity", "critical")
        high_count == CountWhere(violation_list, "severity", "high")
        medium_count == CountWhere(violation_list, "severity", "medium")
        reject_actions == CountWhere(violation_list, "action", "reject")
    IN  IF violation_list = <<>>
        THEN AgentVerdict(POLICY_AGENT, "not_fraud", 8500, "low")
        ELSE IF reject_actions > 0 \/ critical_count > 0
        THEN AgentVerdict(POLICY_AGENT, "fraud",
                          Min(9000 + 200 * critical_count, 9800), "critical")
        ELSE IF high_count >= 2 \/ (high_count >= 1 /\ medium_count >= 2)
        THEN AgentVerdict(POLICY_AGENT, "fraud",
                          Min(7500 + 500 * high_count, 9800), "high")
        ELSE IF high_count >= 1
        THEN AgentVerdict(POLICY_AGENT, "review", 7000, "high")
        ELSE IF medium_count = 2
        THEN AgentVerdict(POLICY_AGENT, "review", 6500, "medium")
        ELSE AgentVerdict(POLICY_AGENT, "review", 6000, "low")

\* PolicyAnalysisAgent._determine_verdict
PolicyDetermineVerdict(violation_list) ==
    LET critical_count == CountWhere(violation_list, "severity", "critical")
        high_count == CountWhere(violation_list, "severity", "high")
        medium_count == CountWhere(violation_list, "severity", "medium")
        reject_actions == CountWhere(violation_list, "action", "reject")
    IN  IF violation_list = <<>>
        THEN AgentVerdict(POLICY_AGENT, "not_fraud", 8500, "low")
        ELSE IF reject_actions > 0 \/ critical_count > 0
        THEN AgentVerdict(POLICY_AGENT, "fraud",
                          Min(9000 + 200 * critical_count, 9800), "critical")
        ELSE IF high_count >= 2 \/ (high_count >= 1 /\ medium_count >= 2)
        THEN AgentVerdict(POLICY_AGENT, "fraud",
                          Min(7500 + 500 * high_count, 9800), "high")
        ELSE IF high_count >= 1
        THEN AgentVerdict(POLICY_AGENT, "review", 7000, "high")
        ELSE IF medium_count >= 2
        THEN AgentVerdict(POLICY_AGENT, "review", 6500, "medium")
        ELSE AgentVerdict(POLICY_AGENT, "review", 6000, "low")

\* PolicyAnalysisAgent.analyze: the partial update
PolicyAnalyze(violation_list) ==
    [agent_verdicts |-> <<PolicyDetermineVerdict(violation_list)>>,
     all_flags |-> [i \in DOMAIN violation_list |-> PolicyFlag(violation_list[i].policy_id)],
     current_step |-> "policy_analysis_complete"]

----------------------------------------------------------------------------
(* agents/generic_fraud_agent.py *)
(* The collaborator's answer has kind "error" (chain.invoke raised),       *)
(* "malformed" (not a mapping) or "mapping", with the mapping's verdict,   *)
(* confidence and risk_level.                                              *)

LLMVerdicts == {"fraud", "not_fraud", "review", "other"}
LLMRiskLevels == {"low", "medium", "high", "critical", "other"}
LLMConfidences == {0, 5000, 10000, 15000}

LLMAnswers ==
    [kind : {"mapping"}, verdict : LLMVerdicts, confidence : LLMConfidences,
     risk_level : LLMRiskLevels]
    \cup [kind : {"error", "malformed"}, verdict : {"other"}, confidence : {0},
          risk_level : {"other"}]

\* GenericFraudAgent._create_verdict raises: result.get on a non-mapping, or
\* AgentVerdict's Field(ge=0.0, le=1.0) rejecting the confidence
CreateVerdictRaises(answer) ==
    \/ answer.kind = "malformed"
    \/ answer.kind = "mapping" /\ ~ConfidenceValid(answer.confidence)

\* GenericFraudAgent._create_verdict
_create_verdict(result) ==
    AgentVerdict(GENERIC_AGENT,
                 IF result.verdict \in ScoredClasses THEN result.verdict ELSE "review",
                 result.confidence,
                 IF result.risk_level \in RiskLevel THEN result.risk_level ELSE "medium")

\* GenericFraudAgent._handle_llm_error
_handle_llm_error ==
    [agent_verdicts |-> <<AgentVerdict(GENERIC_AGENT, "review", 3000, "medium")>>,
     processing_errors |-> <<"GenericFraudAgent LLM error">>,
     current_step |-> "generic_analysis_error"]

\* GenericFraudAgent.analyze: the partial update, for an answer that does not
\* make _create_verdict raise
GenericAnalyze(answer) ==
    IF answer.kind = "error" THEN _handle_llm_error
    ELSE [agent_verdicts |-> <<_create_verdict(answer)>>,
          current_step |-> "generic_analysis_complete"]

----------------------------------------------------------------------------
(* agents/voting_aggregator.py: create_analysis_result *)

\* FraudAnalysisResult(final_verdict=state.get("final_verdict", ...), ...)
\* rejects a final_verdict or final_risk_level of None.
CreateResultRaises(st) == st.final_verdict = "None" \/ st.final_risk_level = "None"

create_analysis_result(st) ==
    [agent_verdicts |-> st.agent_verdicts,
     final_verdict |-> st.final_verdict,
     final_confidence |-> st.final_confidence,
     final_risk_level |-> st.final_risk_level,
     consensus_reached |-> st.consensus_reached,
     voting_summary |-> st.voting_summary,
     errors |-> Len(st.processing_errors)]

----------------------------------------------------------------------------
(* database/policy_db.py: the rule engine                                  *)
(* A Python value is a record tagged with its type: None, a number, a      *)
(* string or a boolean. A field name is the pair of its dotted prefix      *)
(* ("metadata", "client" or none) and the rest of the name.                *)

NoneValue == [t |-> "none"]
Num(n) == [t |-> "num", n |-> n]
Str(s) == [t |-> "str", s |-> s]
Bool(b) == [t |-> "bool", b |-> b]

FieldName(prefix, key) == [prefix |-> prefix, key |-> key]

\* actual == expected
PyEq(a, b) == a.t = b.t /\ a = b

\* str.lower() on the strings of the model
Lower(s) ==
    CASE s = "CASH" -> "cash"
      [] s = "John Doe" -> "john doe"
      [] s = "JOHN DOE" -> "john doe"
      [] s = "Acme" -> "acme"
      [] s = "ACME" -> "acme"
      [] s = "Emulator" -> "emulator"
      [] s = "iPhone" -> "iphone"
      [] OTHER -> s

\* str(value)
PyStr(value) == IF value.t = "str" THEN value.s ELSE "non-string"

\* bool(re.search(pattern, text, flags)) on the strings of the model
Search(pattern, text, case_insensitive) ==
    LET subject == IF case_insensitive THEN Lower(text) ELSE text
    IN  CASE pattern = "^(cash|bearer)$" -> subject \in {"cash", "bearer"}
          [] pattern = "(emulator|rooted|jailbroken)" ->
                subject \in {"emulator", "rooted", "jailbroken"}
          [] pattern = "rent" -> subject = "rent"
          [] OTHER -> FALSE

\* PolicyDatabase._get_field_value; an account's account_opened_date is held
\* as the number of days from it to now
_get_field_value(field, check, client) ==
    IF field.prefix = "metadata"
    THEN IF field.key \in DOMAIN check.metadata
         THEN check.metadata[field.key] ELSE NoneValue
    ELSE IF field.prefix = "client" /\ client.t # "none"
    THEN IF field.key \in DOMAIN client THEN client[field.key] ELSE NoneValue
    ELSE IF field = FieldName("", "account_age_days") /\ client.t # "none"
    THEN client.account_opened_date
    ELSE IF field.prefix = "" /\ field.key \in DOMAIN check \ {"metadata"}
    THEN check[field.key] ELSE NoneValue

NotViolated == [violated |-> FALSE, raises |-> "None"]
Outcome(violated) == [violated |-> violated, raises |-> "None"]
Raises(exception) == [violated |-> FALSE, raises |-> exception]

\* PolicyDatabase._evaluate_boolean
_evaluate_boolean(conditions, check) ==
    Outcome(PyEq(_get_field_value(conditions.field, check, NoneValue),
                 conditions.value))

\* PolicyDatabase._evaluate_threshold
_evaluate_threshold(conditions, check, client, stats) ==
    LET value == _get_field_value(conditions.field, check, client)
    IN  IF value.t = "none" THEN NotViolated
        ELSE IF conditions.operator = "exceeds_average_by_percent" /\ stats.t # "none"
        THEN IF stats.average_amount > 0
             THEN IF value.t # "num" THEN Raises("TypeError")
                  ELSE Outcome((value.n - stats.average_amount) * 100
                                  > conditions.threshold * stats.average_amount)
             ELSE NotViolated
        ELSE IF conditions.operator = "less_than"
        THEN IF value.t # "num" THEN Raises("TypeError")
             ELSE Outcome(value.n < conditions.threshold)
        ELSE IF conditions.operator = "greater_than"
        THEN IF value.t # "num" THEN Raises("TypeError")
             ELSE Outcome(value.n > conditions.threshold)
        ELSE NotViolated

\* PolicyDatabase._evaluate_pattern
_evaluate_pattern(conditions, check) ==
    LET value == _get_field_value(conditions.field, check, NoneValue)
    IN  IF value.t = "none" THEN NotViolated
        ELSE Outcome(Search(conditions.pattern, PyStr(value),
                            conditions.case_insensitive))

\* PolicyDatabase._evaluate_single_condition
_evaluate_single_condition(condition, check, client) ==
    LET actual == _get_field_value(condition.field, check, client)
    IN  IF actual.t = "none" THEN NotViolated
        ELSE IF condition.operator \in {"less_than", "greater_than"}
        THEN IF actual.t # "num" \/ condition.value.t # "num" THEN Raises("TypeError")
             ELSE IF condition.operator = "less_than"
             THEN Outcome(actual.n < condition.value.n)
             ELSE Outcome(actual.n > condition.value.n)
        ELSE IF condition.operator = "equals"
        THEN Outcome(PyEq(actual, condition.value))
        ELSE IF condition.operator = "is_round_number"
        THEN IF actual.t # "num" THEN Raises("TypeError")
             ELSE Outcome(actual.n % condition.precision = 0)
        ELSE NotViolated

\* PolicyDatabase._evaluate_compound: the conditions are all evaluated, in order
_evaluate_compound(conditions, check, client) ==
    LET Results(conds) ==
            [i \in DOMAIN conds |-> _evaluate_single_condition(conds[i], check, client)]
        Combine(results, violated) ==
            IF \E i \in DOMAIN results : results[i].raises # "None"
            THEN Raises("TypeError")
            ELSE Outcome(violated)
        all_results == Results(conditions.all)
        any_results == Results(conditions.any)
    IN  IF conditions.all # <<>>
        THEN Combine(all_results,
                     \A i \in DOMAIN all_results : all_results[i].violated)
        ELSE IF conditions.any # <<>>
        THEN Combine(any_results,
                     \E i \in DOMAIN any_results : any_results[i].violated)
        ELSE NotViolated

\* PolicyDatabase._evaluate_list_check
_evaluate_list_check(conditions, check, client) ==
    LET value == _get_field_value(conditions.field, check, NoneValue)
        ref_list ==
            IF conditions.reference # FieldName("", "") /\ client.t # "none"
            THEN IF conditions.reference.key \in DOMAIN client
                 THEN client[conditions.reference.key] ELSE <<>>
            ELSE <<>>
        value_lower == Lower(PyStr(value))
        ref_list_lower == {Lower(ref_list[i]) : i \in DOMAIN ref_list}
    IN  IF value.t = "none" THEN NotViolated
        ELSE IF conditions.operator = "not_in"
        THEN Outcome(value_lower \notin ref_list_lower)
        ELSE IF conditions.operator = "in"
        THEN Outcome(value_lower \in ref_list_lower)
        ELSE NotViolated

\* PolicyDatabase._evaluate_comparison
_evaluate_comparison(conditions, check, client) ==
    LET value == _get_field_value(conditions.field, check, NoneValue)
        ref_value == _get_field_value(conditions.reference, check, client)
    IN  IF value.t = "none" \/ ref_value.t = "none" THEN NotViolated
        ELSE IF conditions.operator = "equals"
        THEN Outcome(Lower(PyStr(value)) = Lower(PyStr(ref_value)))
        ELSE IF conditions.operator = "not_equals"
        THEN Outcome(Lower(PyStr(value)) # Lower(PyStr(ref_value)))
        ELSE NotViolated

\* PolicyDatabase._evaluate_validation
_evaluate_validation(conditions, check) ==
    IF conditions.operator = "must_match" /\ Len(conditions.fields) = 2
    THEN NotViolated
    ELSE NotViolated

\* Faulty variant: a rule of no known kind counts as violated
UnknownKindViolated == Outcome(TRUE)

\* _evaluate_policy's last line: return {"violated": False}
UnknownKind == NotViolated

\* PolicyDatabase._evaluate_policy
_evaluate_policy(policy, check, client, stats) ==
    CASE policy.rule_type = "boolean" -> _evaluate_boolean(policy.conditions, check)
      [] policy.rule_type = "threshold" ->
            _evaluate_threshold(policy.conditions, check, client, stats)
      [] policy.rule_type = "pattern" -> _evaluate_pattern(policy.conditions, check)
      [] policy.rule_type = "compound" ->
            _evaluate_compound(policy.conditions, check, client)
      [] policy.rule_type = "list_check" ->
            _evaluate_list_check(policy.conditions, check, client)
      [] policy.rule_type = "comparison" ->
            _evaluate_comparison(policy.conditions, check, client)
      [] policy.rule_type = "velocity" -> NotViolated
      [] policy.rule_type = "validation" ->
            _evaluate_validation(policy.conditions, check)
      [] OTHER -> UnknownKind

\* PolicyDatabase.evaluate_check raises when evaluating a rule raises
EvaluateCheckRaises(rules, check, client, stats) ==
    \E i \in DOMAIN rules :
        _evaluate_policy(rules[i], check, client, stats).raises # "None"

\* PolicyDatabase.evaluate_check: the violated rules, in the rules' order
evaluate_check(rules, check, client, stats) ==
    LET RECURSIVE From(_)
        From(i) ==
            IF i > Len(rules) THEN <<>>
            ELSE IF _evaluate_policy(rules[i], check, client, stats).violated
            THEN <<[policy_id |-> rules[i].policy_id,
                    severity |-> rules[i].severity,
                    action |-> rules[i].action]>> \o From(i + 1)
            ELSE From(i + 1)
    IN  From(1)

FraudPolicy(policy_id, rule_type, conditions, action, severity) ==
    [policy_id |-> policy_id, rule_type |-> rule_type, conditions |-> conditions,
     action |-> action, severity |-> severity]

Condition(field, operator, value, precision) ==
    [field |-> field, operator |-> operator, value |-> value, precision |-> precision]

\* database/sample_data.py: create_fraud_policies (thresholds on quality
\* scores are in hundredths)
create_fraud_policies ==
    << FraudPolicy("POL001", "threshold",
           [field |-> FieldName("", "amount"),
            operator |-> "exceeds_average_by_percent", threshold |-> 500],
           "flag_for_review", "high"),
       FraudPolicy("POL002", "boolean",
           [field |-> FieldName("", "has_watermark"), value |-> Bool(FALSE)],
           "flag_as_suspicious", "critical"),
       FraudPolicy("POL003", "boolean",
           [field |-> FieldName("", "signature_present"), value |-> Bool(FALSE)],
           "reject", "critical"),
       FraudPolicy("POL004", "pattern",
           [field |-> FieldName("", "payee"), pattern |-> "^(cash|bearer)$",
            case_insensitive |-> TRUE],
           "flag_for_review", "high"),
       FraudPolicy("POL005", "compound",
           [all |-> << Condition(FieldName("", "account_age_days"), "less_than",
                                 Num(90), 100),
                       Condition(FieldName("", "amount"), "greater_than",
                                 Num(5000), 100) >>,
            any |-> <<>>],
           "flag_for_review", "high"),
       FraudPolicy("POL006", "list_check",
           [field |-> FieldName("", "payee"), operator |-> "not_in",
            reference |-> FieldName("client", "typical_payees")],
           "flag_for_review", "medium"),
       FraudPolicy("POL007", "comparison",
           [field |-> FieldName("", "payee"), operator |-> "equals",
            reference |-> FieldName("client", "name")],
           "flag_for_review", "medium"),
       FraudPolicy("POL008", "velocity",
           [event |-> "check_deposit", time_window_hours |-> 24, max_count |-> 3],
           "flag_for_review", "medium"),
       FraudPolicy("POL009", "compound",
           [all |-> << Condition(FieldName("", "amount"), "greater_than",
                                 Num(1000), 100),
                       Condition(FieldName("", "amount"), "is_round_number",
                                 NoneValue, 100) >>,
            any |-> <<>>],
           "flag_for_review", "low"),
       FraudPolicy("POL010", "threshold",
           [field |-> FieldName("metadata", "image_quality_score"),
            operator |-> "less_than", threshold |-> 60],
           "flag_for_review", "medium"),
       FraudPolicy("POL011", "pattern",
           [field |-> FieldName("metadata", "device"),
            pattern |-> "(emulator|rooted|jailbroken)", case_insensitive |-> TRUE],
           "reject", "critical"),
       FraudPolicy("POL012", "validation",
           [fields |-> <<"amount", "amount_written">>, operator |-> "must_match"],
           "flag_for_review", "high") >>

----------------------------------------------------------------------------
(* The state machine *)

VARIABLES
    entry,          \* the entry point called
    pc,             \* the next step of the entry point
    check,          \* the instrument: [has_watermark, signature_present, client_in_repository]
    weights,        \* VotingAggregator.weights
    state,          \* the analysis record (FraudDetectionState)
    voting_result,  \* what VotingAggregator.aggregate returned
    executed,       \* the stages run so far, in order
    result,         \* the FraudAnalysisResult returned to the caller
    raised,         \* the exception that escaped the entry point
    new_result,     \* the partial update last merged into the record by hand
    policies,       \* PolicyDatabase.policies: the active rules, in order
    client,         \* the account handed to evaluate_check
    transaction_stats,  \* the statistics handed to evaluate_check
    violations      \* the violation list of the policy stage

vars == <<entry, pc, check, weights, state, voting_result, executed, result, raised,
          new_result, policies, client, transaction_stats, violations>>

\* The state of the rule engine and of the policy stage taken alone
policy_vars == <<policies, client, transaction_stats, violations>>

\* No rule engine is under evaluation
NoPolicyEvaluation ==
    /\ policies = <<>>
    /\ client = "None"
    /\ transaction_stats = "None"
    /\ violations = <<>>

Checks ==
    [has_watermark : BOOLEAN, signature_present : BOOLEAN,
     client_in_repository : BOOLEAN]

NoResult == [final_verdict |-> "None"]
NoVote == [current_step |-> "None"]
NoUpdate == [current_step |-> "None"]

\* run_fraud_detection / run_fraud_detection_without_llm are called with a
\* check and an optional client
Init ==
    /\ entry \in {"run_fraud_detection", "run_fraud_detection_without_llm"}
    /\ pc = "start"
    /\ check \in Checks
    /\ weights = DEFAULT_WEIGHTS
    /\ \E caller_client \in {"None", "caller"} :
          state = create_initial_state(caller_client)
    /\ voting_result = NoVote
    /\ executed = <<>>
    /\ result = NoResult
    /\ raised = "None"
    /\ new_result = NoUpdate
    /\ NoPolicyEvaluation

\* An agent's analyze raises when an AgentVerdict it builds is rejected
AnalyzeRaises(update) ==
    \E i \in DOMAIN update.agent_verdicts :
        ~ConfidenceValid(update.agent_verdicts[i].confidence)

\* The edges of the graph (workflow.add_edge), END after voting
EdgeFrom(node) ==
    CASE node = "check_analysis" -> "transaction_analysis"
      [] node = "transaction_analysis" -> "policy_analysis"
      [] node = "policy_analysis" -> "generic_analysis"
      [] node = "generic_analysis" -> "voting"
      [] node = "voting" -> "END"

\* The entry executed gains when a stage has run
Ran(stage, stage_raised) == [stage |-> stage, raised |-> stage_raised]

\* The entry executed gains when the generic stage has run, with what the
\* collaborator did: "not_called" (the agent raised before chain.invoke),
\* "error" (chain.invoke raised), "malformed" (the answer is not a mapping),
\* "invalid_confidence" (a mapping, confidence outside [0, 1]) or "mapping"
RanGeneric(answer, fails, stage_raised) ==
    [stage |-> "generic_analysis", raised |-> stage_raised,
     collaborator |->
        IF fails THEN "not_called"
        ELSE IF answer.kind = "mapping" /\ ~ConfidenceValid(answer.confidence)
        THEN "invalid_confidence"
        ELSE answer.kind]

\* Faulty variant: the except branch of a node also returns a verdict
NodeErrorWithVerdict(message, step) ==
    [agent_verdicts |-> <<AgentVerdict(step, "review", 0, "medium")>>,
     processing_errors |-> <<message>>, current_step |-> step]

\* What a node of the graph returns when its agent raised
NodeError(message, step) ==
    [processing_errors |-> <<message>>, current_step |-> step]

\* run_fraud_detection: create_fraud_detection_workflow, create_initial_state
\* and the graph's entry point
\* GenericFraudAgent.__init__ calls _initialize_llm, which raises ValueError
\* when the provider's API key is not configured.
CreateWorkflow ==
    /\ entry = "run_fraud_detection" /\ pc = "start"
    /\ \E api_key \in BOOLEAN :
          IF api_key
          THEN pc' = "check_analysis" /\ UNCHANGED raised
          ELSE pc' = "raised" /\ raised' = "ValueError"
    /\ UNCHANGED <<policy_vars, entry, check, weights, state, voting_result, executed, result, new_result>>

\* check_analysis_node, then the edge to transaction_analysis
CheckAnalysisNode ==
    /\ pc = "check_analysis"
    /\ \E md \in Metadata, fails \in BOOLEAN :
          LET stage_raised == fails \/ AnalyzeRaises(CheckAnalyze(check, md))
          IN  /\ state' = GraphUpdate(state,
                    IF stage_raised
                    THEN NodeError("Check analysis error", "check_analysis_error")
                    ELSE CheckAnalyze(check, md))
              /\ executed' = Append(executed, Ran("check_analysis", stage_raised))
    /\ pc' = EdgeFrom("check_analysis")
    /\ UNCHANGED <<policy_vars, entry, check, weights, voting_result, result, raised, new_result>>

\* transaction_analysis_node, then the edge to policy_analysis
TransactionAnalysisNode ==
    /\ pc = "transaction_analysis"
    /\ \E h \in History, fails \in BOOLEAN :
          \* only the analysis of a known client reads the repository's history
          LET update == TransactionAnalyze(check.client_in_repository, h)
              stage_raised == (fails /\ check.client_in_repository)
                                \/ AnalyzeRaises(update)
          IN  /\ state' = GraphUpdate(state,
                    IF stage_raised
                    THEN NodeError("Transaction analysis error",
                                   "transaction_analysis_error")
                    ELSE update)
              /\ executed' = Append(executed, Ran("transaction_analysis", stage_raised))
    /\ pc' = EdgeFrom("transaction_analysis")
    /\ UNCHANGED <<policy_vars, entry, check, weights, voting_result, result, raised, new_result>>

\* policy_analysis_node, then the edge to generic_analysis
PolicyAnalysisNode ==
    /\ pc = "policy_analysis"
    /\ \E violation_list \in ViolationLists, fails \in BOOLEAN :
          LET stage_raised == fails \/ AnalyzeRaises(PolicyAnalyze(violation_list))
          IN  /\ state' = GraphUpdate(state,
                    IF stage_raised
                    THEN NodeError("Policy analysis error", "policy_analysis_error")
                    ELSE PolicyAnalyze(violation_list))
              /\ executed' = Append(executed, Ran("policy_analysis", stage_raised))
    /\ pc' = EdgeFrom("policy_analysis")
    /\ UNCHANGED <<policy_vars, entry, check, weights, voting_result, result, raised, new_result>>

\* generic_analysis_node, then the edge to voting
GenericAnalysisNode ==
    /\ pc = "generic_analysis"
    /\ \E answer \in LLMAnswers, fails \in BOOLEAN :
          LET stage_raised == fails \/ CreateVerdictRaises(answer)
          IN  /\ state' = GraphUpdate(state,
                    IF stage_raised
                    THEN NodeError("Generic analysis error", "generic_analysis_error")
                    ELSE GenericAnalyze(answer))
              /\ executed' = Append(executed, RanGeneric(answer, fails, stage_raised))
    /\ pc' = EdgeFrom("generic_analysis")
    /\ UNCHANGED <<policy_vars, entry, check, weights, voting_result, result, raised, new_result>>

\* voting_node, then the edge to END
VotingNode ==
    /\ pc = "voting"
    /\ voting_result' =
          IF AggregateRaises(state)
          THEN NodeError("Voting aggregation error", "voting_error")
          ELSE aggregate(weights, state)
    /\ state' = GraphUpdate(state, voting_result')
    /\ executed' = Append(executed, Ran("voting", AggregateRaises(state)))
    /\ pc' = EdgeFrom("voting")
    /\ UNCHANGED <<policy_vars, entry, check, weights, result, raised, new_result>>

\* run_fraud_detection: aggregator.create_analysis_result(final_state)
ReturnResult ==
    /\ entry = "run_fraud_detection" /\ pc = "END"
    /\ IF CreateResultRaises(state)
       THEN /\ pc' = "raised"
            /\ raised' = "ValidationError"
            /\ UNCHANGED result
       ELSE /\ pc' = "returned"
            /\ result' = create_analysis_result(state)
            /\ UNCHANGED raised
    /\ UNCHANGED <<policy_vars, entry, check, weights, state, voting_result, executed, new_result>>

\* run_fraud_detection_without_llm: get_analysis_config, the repositories and
\* CheckAnalysisAgent(config=config, llm=llm).  CheckAnalysisAgent.__init__
\* takes no parameter but self, so the call raises TypeError before the
\* record is created and before any stage runs.
ConstructAgentsWithoutLLM ==
    /\ entry = "run_fraud_detection_without_llm" /\ pc = "start"
    /\ pc' = "raised"
    /\ raised' = "TypeError"
    /\ UNCHANGED <<policy_vars, entry, check, weights, state, voting_result, executed, result, new_result>>

Next ==
    \/ CreateWorkflow
    \/ CheckAnalysisNode
    \/ TransactionAnalysisNode
    \/ PolicyAnalysisNode
    \/ GenericAnalysisNode
    \/ VotingNode
    \/ ReturnResult
    \/ ConstructAgentsWithoutLLM

Spec == Init /\ [][Next]_vars

----------------------------------------------------------------------------
(* VotingAggregator.aggregate as a function of the verdict list it is given *)

MaxVerdicts == 3

AnalyzerNames == {CHECK_AGENT, TRANSACTION_AGENT, POLICY_AGENT, GENERIC_AGENT}

\* The stage an analyzer's verdict comes from, in pipeline order
StageOf(name) ==
    CASE name = CHECK_AGENT -> 1
      [] name = TRANSACTION_AGENT -> 2
      [] name = POLICY_AGENT -> 3
      [] name = GENERIC_AGENT -> 4

\* AgentVerdict.confidence values given to the aggregator (0.0, 0.5, 1.0)
VerdictConfidences == {0, One \div 2, One}

InitAgg ==
    /\ entry = "aggregate"
    /\ pc = "verdicts"
    /\ check = [has_watermark |-> TRUE, signature_present |-> TRUE,
                client_in_repository |-> TRUE]
    /\ weights = DEFAULT_WEIGHTS
    /\ state = create_initial_state("None")
    /\ voting_result = NoVote
    /\ executed = <<>>
    /\ result = NoResult
    /\ raised = "None"
    /\ new_result = NoUpdate
    /\ NoPolicyEvaluation

\* The caller's record gains one more AgentVerdict before aggregate is called
AddVerdict ==
    /\ entry = "aggregate" /\ pc = "verdicts"
    /\ Len(state.agent_verdicts) < MaxVerdicts
    /\ \E name \in AnalyzerNames, verdict \in FraudVerdict,
          confidence \in VerdictConfidences, risk_level \in RiskLevel :
          /\ \A i \in DOMAIN state.agent_verdicts :
                StageOf(state.agent_verdicts[i].agent_name) < StageOf(name)
          /\ state' = [state EXCEPT !.agent_verdicts =
                          Append(@, AgentVerdict(name, verdict, confidence, risk_level))]
    /\ UNCHANGED <<policy_vars, entry, pc, check, weights, voting_result, executed, result, raised, new_result>>

\* VotingAggregator(weights).aggregate(state)
Aggregate ==
    /\ entry = "aggregate" /\ pc = "verdicts"
    /\ IF AggregateRaises(state)
       THEN /\ pc' = "raised"
            /\ raised' = "KeyError"
            /\ UNCHANGED voting_result
       ELSE /\ pc' = "aggregated"
            /\ voting_result' = aggregate(weights, state)
            /\ UNCHANGED raised
    /\ UNCHANGED <<policy_vars, entry, check, weights, state, executed, result, new_result>>

NextAgg ==
    \/ AddVerdict
    \/ Aggregate

SpecAgg == InitAgg /\ [][NextAgg]_vars

----------------------------------------------------------------------------
(* Merging partial updates into the record: the graph's reducer and         *)
(* workflow.py's _merge_state                                               *)

MaxUpdateVerdicts == 2

\* The verdict lists a partial update can carry; names may repeat
MergeVerdicts ==
    {AgentVerdict(name, verdict, One, "low") :
        name \in {CHECK_AGENT, TRANSACTION_AGENT},
        verdict \in {"fraud", "not_fraud"}}

RECURSIVE ListsUpTo(_, _)
ListsUpTo(S, n) ==
    IF n = 0 THEN {<<>>}
    ELSE LET shorter == ListsUpTo(S, n - 1)
         IN  shorter \cup {Append(l, x) : l \in shorter, x \in S}

PartialUpdates ==
    {[agent_verdicts |-> vs, current_step |-> "analysis_complete"] :
        vs \in ListsUpTo(MergeVerdicts, MaxUpdateVerdicts)}
    \cup {NodeError("analysis error", "analysis_error")}

InitMerge ==
    /\ entry = "merge"
    /\ pc = "start"
    /\ check = [has_watermark |-> TRUE, signature_present |-> TRUE,
                client_in_repository |-> TRUE]
    /\ weights = DEFAULT_WEIGHTS
    /\ state = create_initial_state("None")
    /\ voting_result = NoVote
    /\ executed = <<>>
    /\ result = NoResult
    /\ raised = "None"
    /\ new_result = NoUpdate
    /\ NoPolicyEvaluation

\* A node's return value is applied to the record by the graph
GraphMerge ==
    /\ entry = "merge"
    /\ \E upd \in PartialUpdates :
          /\ new_result' = upd
          /\ state' = GraphUpdate(state, upd)
    /\ pc' = "graph_merged"
    /\ UNCHANGED <<policy_vars, entry, check, weights, voting_result, executed, result, raised>>

\* state = _merge_state(state, result)
ManualMerge ==
    /\ entry = "merge"
    /\ \E upd \in PartialUpdates :
          /\ new_result' = upd
          /\ state' = _merge_state(state, upd)
    /\ pc' = "manual_merged"
    /\ UNCHANGED <<policy_vars, entry, check, weights, voting_result, executed, result, raised>>

NextMerge ==
    \/ GraphMerge
    \/ ManualMerge

SpecMerge == InitMerge /\ [][NextMerge]_vars

----------------------------------------------------------------------------
(* Properties *)

\* The stages of run_fraud_detection and of run_fraud_detection_without_llm,
\* in the order their code lists them
StageOrder(entry_point) ==
    IF entry_point = "run_fraud_detection"
    THEN <<"check_analysis", "transaction_analysis", "policy_analysis",
           "generic_analysis", "voting">>
    ELSE <<"check_analysis", "transaction_analysis", "policy_analysis", "voting">>

\* The analyzer a stage runs (AGENT_NAME of its agent)
AgentOf(stage) ==
    CASE stage = "check_analysis" -> CHECK_AGENT
      [] stage = "transaction_analysis" -> TRANSACTION_AGENT
      [] stage = "policy_analysis" -> POLICY_AGENT
      [] stage = "generic_analysis" -> GENERIC_AGENT

AnalyzerStages ==
    {"check_analysis", "transaction_analysis", "policy_analysis", "generic_analysis"}

VerdictNames(verdicts) == {verdicts[i].agent_name : i \in DOMAIN verdicts}

StagesThat(stage_raised) ==
    {executed[i].stage : i \in {j \in DOMAIN executed :
        executed[j].stage \in AnalyzerStages /\ executed[j].raised = stage_raised}}

\* C1: in run_fraud_detection, once the graph runs, a stage that raises is
\* caught (nothing escapes), the verdicts in the record are exactly those of
\* the stages that did not raise, the stages follow each other in the graph's
\* order whatever failed, and voting is reached and produces a result; when
\* all four analyzers failed it is the result for an empty verdict list.
C1_FailedStagesAreCaught ==
    (entry = "run_fraud_detection" /\ executed # <<>>) =>
        LET order == StageOrder(entry)
            n == Len(executed)
        IN  /\ raised = "None"
            /\ n <= Len(order)
            /\ \A i \in DOMAIN executed : executed[i].stage = order[i]
            /\ IF n < Len(order) THEN pc = order[n + 1] ELSE pc \in {"END", "returned"}
            /\ VerdictNames(state.agent_verdicts)
                  = {AgentOf(stage) : stage \in StagesThat(FALSE)}
            /\ n = Len(order) =>
                  /\ ~executed[n].raised
                  /\ voting_result.current_step
                        \in {"voting_complete", "voting_complete_no_verdicts"}
                  /\ StagesThat(TRUE) = AnalyzerStages =>
                        /\ state.agent_verdicts = <<>>
                        /\ voting_result = _no_verdicts_result

\* All four analyzers raised and the caller still got the degenerate result
C1_AllFourFailed ==
    /\ entry = "run_fraud_detection" /\ pc = "returned"
    /\ StagesThat(TRUE) = AnalyzerStages
    /\ result.final_verdict = "review" /\ result.agent_verdicts = <<>>

\* C2: run_fraud_detection_without_llm lets no exception escape: the run
\* never ends with an exception raised to the caller.
C2_NoExceptionEscapes ==
    entry = "run_fraud_detection_without_llm" => raised = "None"

\* C7: the stages run in the entry point's fixed order, and a run that has
\* ended has run them all, voting exactly once and last.  (A run refused
\* because the holistic collaborator has no API key is not counted.)
C7_FixedStageOrder ==
    LET order == StageOrder(entry)
    IN  entry \in {"run_fraud_detection", "run_fraud_detection_without_llm"} =>
          /\ Len(executed) <= Len(order)
          /\ \A i \in DOMAIN executed : executed[i].stage = order[i]
          /\ (pc \in {"returned", "raised"} /\ raised # "ValueError") =>
                Len(executed) = Len(order)

\* aggregate has returned a result for the verdict list in the record
Aggregated == entry = "aggregate" /\ pc = "aggregated"

\* The normalized score of a class in the returned summary
ScoreOf(cls) == NormalizedGet(voting_result.voting_summary, cls)

CriticalFraudAt(i) ==
    /\ state.agent_verdicts[i].verdict = "fraud"
    /\ state.agent_verdicts[i].risk_level = "critical"

\* C3: when some verdict of the list is fraud with risk critical, the final
\* verdict aggregate returns is fraud and its confidence is at least 0.85,
\* whatever that verdict's confidence and whatever the other verdicts are.
C3_CriticalFraudWins ==
    (Aggregated /\ \E i \in DOMAIN state.agent_verdicts : CriticalFraudAt(i)) =>
        /\ voting_result.final_verdict = "fraud"
        /\ FGe(voting_result.final_confidence, Frac(17, 20))

\* A critical fraud verdict of confidence 0 beside a not_fraud verdict of
\* confidence 1: the normalized fraud score is 0 and the result is fraud
C3_ZeroConfidenceCriticalFraud ==
    /\ Aggregated
    /\ \E i, j \in DOMAIN state.agent_verdicts :
          /\ CriticalFraudAt(i) /\ state.agent_verdicts[i].confidence = 0
          /\ state.agent_verdicts[j].verdict = "not_fraud"
          /\ state.agent_verdicts[j].confidence = One
    /\ FEq(ScoreOf("fraud"), Frac(0, 1))
    /\ voting_result.final_verdict = "fraud"

\* C4: when no verdict is fraud with risk critical, the final verdict is
\* fraud if the fraud score exceeds 0.5, else not_fraud if the not_fraud
\* score exceeds 0.6, else review if the fraud score or the review score
\* exceeds 0.3, else not_fraud; a score equal to a threshold does not exceed it.
C4_FirstMatchingRule ==
    (/\ Aggregated
     /\ state.agent_verdicts # <<>>
     /\ \A i \in DOMAIN state.agent_verdicts : ~CriticalFraudAt(i)) =>
        voting_result.final_verdict =
            IF FGt(ScoreOf("fraud"), Frac(1, 2)) THEN "fraud"
            ELSE IF FGt(ScoreOf("not_fraud"), Frac(3, 5)) THEN "not_fraud"
            ELSE IF \/ FGt(ScoreOf("fraud"), Frac(3, 10))
                    \/ FGt(ScoreOf("review"), Frac(3, 10)) THEN "review"
            ELSE "not_fraud"

\* A fraud score of exactly 0.5 without critical fraud gives review
C4_FraudScoreExactlyHalf ==
    /\ Aggregated
    /\ state.agent_verdicts # <<>>
    /\ \A i \in DOMAIN state.agent_verdicts : ~CriticalFraudAt(i)
    /\ voting_result.voting_summary.total_weight > 0
    /\ FEq(ScoreOf("fraud"), Frac(1, 2))
    /\ voting_result.final_verdict = "review"

\* C5: aggregate on an empty verdict list does not raise and returns review,
\* confidence 0, risk medium, no consensus and the note that no agent
\* verdicts were available.
C5_NoVerdictsResult ==
    (entry = "aggregate" /\ pc # "verdicts" /\ state.agent_verdicts = <<>>) =>
        /\ pc = "aggregated" /\ raised = "None"
        /\ voting_result.final_verdict = "review"
        /\ voting_result.final_confidence = Frac(0, 1)
        /\ voting_result.final_risk_level = "medium"
        /\ voting_result.consensus_reached = FALSE
        /\ voting_result.voting_summary.error = "No agent verdicts available"

\* aggregate has been applied to the empty list
C5_AggregatedEmptyList ==
    Aggregated /\ state.agent_verdicts = <<>> /\ voting_result.final_verdict = "review"

\* C8: for every non-empty verdict list with outcomes among fraud,
\* not_fraud, review and unknown, aggregate returns a summary whose
\* normalized scores sum to 1 when the total effective weight is positive
\* and are all 0 when it is 0.
C8_NormalizedScoresSumToOne ==
    (entry = "aggregate" /\ pc # "verdicts" /\ state.agent_verdicts # <<>>) =>
        /\ pc = "aggregated"
        /\ LET summary == voting_result.voting_summary
               scores == summary.normalized_scores
           IN  IF summary.total_weight > 0
               THEN /\ \A cls \in DOMAIN scores : scores[cls].d = summary.total_weight
                    /\ ScoreOf("fraud").n + ScoreOf("not_fraud").n
                          + ScoreOf("review").n + ScoreOf("unknown").n
                          = summary.total_weight
               ELSE \A cls \in FraudVerdict :
                        cls \in DOMAIN scores /\ scores[cls].n = 0

\* The claimed ordinal of a risk level
ClaimedOrdinal(level) ==
    CASE level = "low" -> 1 [] level = "medium" -> 2
      [] level = "high" -> 3 [] level = "critical" -> 4

\* Sum over the first i verdicts of the record of weight times confidence,
\* each multiplied by the verdict's ordinal when by_ordinal
RECURSIVE SumOver(_, _)
SumOver(by_ordinal, i) ==
    IF i = 0 THEN 0
    ELSE LET v == state.agent_verdicts[i]
         IN  SumOver(by_ordinal, i - 1)
             + WeightOf(weights, v.agent_name) * v.confidence
               * (IF by_ordinal THEN ClaimedOrdinal(v.risk_level) ELSE 1)

\* C10: for a non-empty verdict list the final risk level is critical when
\* the effective-weight average A of the risk ordinals (low 1, medium 2,
\* high 3, critical 4) is at least 3.5 or some verdict's risk is critical,
\* else high when A >= 2.5, else medium when A >= 1.5, else low; with a total
\* effective weight of 0, A is 2.
C10_FinalRiskLevel ==
    (Aggregated /\ state.agent_verdicts # <<>>) =>
        LET n == Len(state.agent_verdicts)
            total == SumOver(FALSE, n)
            \* A = num / den
            num == IF total > 0 THEN SumOver(TRUE, n) ELSE 2
            den == IF total > 0 THEN total ELSE 1
        IN  voting_result.final_risk_level =
                IF \/ 2 * num >= 7 * den
                   \/ \E i \in 1..n : state.agent_verdicts[i].risk_level = "critical"
                THEN "critical"
                ELSE IF 2 * num >= 5 * den THEN "high"
                ELSE IF 2 * num >= 3 * den THEN "medium"
                ELSE "low"

\* Every verdict has confidence 0 and risk high: A is taken as 2, medium
C10_ZeroWeightIsMedium ==
    /\ Aggregated /\ state.agent_verdicts # <<>>
    /\ \A i \in DOMAIN state.agent_verdicts :
          /\ state.agent_verdicts[i].confidence = 0
          /\ state.agent_verdicts[i].risk_level = "high"
    /\ voting_result.final_risk_level = "medium"

\* The branch of _determine_final_verdict that produced the final verdict of
\* a record with verdicts: "critical", "fraud", "not_fraud", "review", "default"
DecisionBranch ==
    IF \E i \in DOMAIN state.agent_verdicts : CriticalFraudAt(i) THEN "critical"
    ELSE IF FGt(ScoreOf("fraud"), Frac(1, 2)) THEN "fraud"
    ELSE IF FGt(ScoreOf("not_fraud"), Frac(3, 5)) THEN "not_fraud"
    ELSE IF \/ FGt(ScoreOf("fraud"), Frac(3, 10))
            \/ FGt(ScoreOf("review"), Frac(3, 10)) THEN "review"
    ELSE "default"

\* voting_node has stored aggregate's result for a non-empty verdict list
Voted ==
    /\ entry = "run_fraud_detection" /\ pc \in {"END", "returned"}
    /\ voting_result.current_step = "voting_complete"

\* C9: every verdict the physical, transaction-history and policy stages put
\* in the record has a confidence in [0,1], and so has the final confidence
\* the aggregator computes, in whichever of its branches.
C9_ConfidenceInUnitInterval ==
    /\ \A i \in DOMAIN state.agent_verdicts :
          /\ 0 <= state.agent_verdicts[i].confidence
          /\ state.agent_verdicts[i].confidence <= One
    /\ "final_confidence" \in DOMAIN voting_result =>
          /\ voting_result.final_confidence.d > 0
          /\ 0 <= voting_result.final_confidence.n
          /\ voting_result.final_confidence.n <= voting_result.final_confidence.d

\* The three local stages contributed verdicts and the aggregator decided in
\* its last branch (not_fraud score + 0.3)
C9_DefaultBranchAfterThreeStages ==
    /\ Voted
    /\ {CHECK_AGENT, TRANSACTION_AGENT, POLICY_AGENT}
          \subseteq VerdictNames(state.agent_verdicts)
    /\ DecisionBranch = "default"
    /\ voting_result.final_verdict = "not_fraud"

NoDuplicateAnalyzer(verdicts) ==
    \A i, j \in DOMAIN verdicts :
        verdicts[i].agent_name = verdicts[j].agent_name => i = j

\* C6: starting from the empty record, every merge (the graph's reducer or
\* _merge_state) leaves at most one verdict per analyzer in the record and
\* keeps every verdict already recorded, unchanged and in place.
C6_OneVerdictPerAnalyzer ==
    [][/\ NoDuplicateAnalyzer(state'.agent_verdicts)
       /\ \A i \in DOMAIN state.agent_verdicts :
             /\ i \in DOMAIN state'.agent_verdicts
             /\ state'.agent_verdicts[i] = state.agent_verdicts[i]]_vars

\* The update merged last carried a verdict of an analyzer already recorded
\* with another verdict, and the recorded one is still there
DuplicateIgnored ==
    /\ "agent_verdicts" \in DOMAIN new_result
    /\ \E i \in DOMAIN state.agent_verdicts, j \in DOMAIN new_result.agent_verdicts :
          /\ new_result.agent_verdicts[j].agent_name = state.agent_verdicts[i].agent_name
          /\ new_result.agent_verdicts[j] # state.agent_verdicts[i]
          /\ \A k \in 1..(j - 1) : new_result.agent_verdicts[k] # state.agent_verdicts[i]

C6_DuplicateIgnoredByManualMerge ==
    entry = "merge" /\ pc = "manual_merged" /\ DuplicateIgnored

\* The number of verdicts of the record whose outcome is the final verdict
Matching ==
    Cardinality({i \in DOMAIN state.agent_verdicts :
        state.agent_verdicts[i].verdict = voting_result.final_verdict})

\* C11: aggregate on a record with fewer than two verdicts (none, or one of
\* any outcome and confidence) returns a result whose consensus is true.
C11_ConsensusBelowTwoVerdicts ==
    (entry = "aggregate" /\ pc # "verdicts" /\ Len(state.agent_verdicts) < 2) =>
        /\ pc = "aggregated"
        /\ voting_result.consensus_reached = TRUE

Unanimous ==
    /\ state.agent_verdicts # <<>>
    /\ state.agent_verdicts[1].verdict \in {"fraud", "not_fraud", "review"}
    /\ \A i \in DOMAIN state.agent_verdicts :
          state.agent_verdicts[i].verdict = state.agent_verdicts[1].verdict

\* C13 as claimed: a unanimous list gives its outcome as final verdict, with
\* consensus, whatever the confidences and the risk levels.
C13_UnanimousWins ==
    (entry = "aggregate" /\ pc # "verdicts" /\ Unanimous) =>
        /\ pc = "aggregated"
        /\ voting_result.final_verdict = state.agent_verdicts[1].verdict
        /\ voting_result.consensus_reached

\* C13 amended: a unanimous list whose total effective weight is positive
\* gives its outcome as final verdict, with consensus, whatever the risk
\* levels.
C13_UnanimousWinsWithPositiveWeight ==
    (entry = "aggregate" /\ pc # "verdicts" /\ Unanimous
     /\ \E i \in DOMAIN state.agent_verdicts :
           EffectiveWeight(weights, state.agent_verdicts[i]) > 0) =>
        /\ pc = "aggregated"
        /\ voting_result.final_verdict = state.agent_verdicts[1].verdict
        /\ voting_result.consensus_reached

\* Three not_fraud verdicts, one of confidence 0 and one of critical risk
C13_UnanimousNotFraudWithCriticalRisk ==
    /\ Aggregated /\ Unanimous /\ Len(state.agent_verdicts) = 3
    /\ state.agent_verdicts[1].verdict = "not_fraud"
    /\ \E i, j \in DOMAIN state.agent_verdicts :
          /\ state.agent_verdicts[i].confidence = 0
          /\ state.agent_verdicts[j].risk_level = "critical"
          /\ state.agent_verdicts[j].confidence > 0
    /\ voting_result.final_verdict = "not_fraud"
    /\ voting_result.consensus_reached

----------------------------------------------------------------------------
(* PolicyAnalysisAgent._determine_verdict as a function of the violation    *)
(* list: the list is built from violations of every severity and action   *)
(* and the verdict is left in new_result.                                  *)

MaxViolations == 4

PolicyActions == {"reject", "flag_for_review", "flag_as_suspicious"}

InitPolicy ==
    /\ entry = "_determine_verdict"
    /\ pc = "violations"
    /\ check = [has_watermark |-> TRUE, signature_present |-> TRUE,
                client_in_repository |-> TRUE]
    /\ weights = DEFAULT_WEIGHTS
    /\ state = create_initial_state("None")
    /\ voting_result = NoVote
    /\ executed = <<>>
    /\ result = NoResult
    /\ raised = "None"
    /\ new_result = NoUpdate
    /\ NoPolicyEvaluation

\* evaluate_check reports one more violated policy
AddViolation ==
    /\ entry = "_determine_verdict" /\ pc = "violations"
    /\ Len(violations) < MaxViolations
    /\ \E severity \in RiskLevel, action \in PolicyActions :
          violations' = Append(violations,
              [policy_id |-> "POL001", severity |-> severity, action |-> action])
    /\ UNCHANGED <<entry, pc, check, weights, state, voting_result, executed, result,
                   raised, new_result, policies, client, transaction_stats>>

\* verdict = self._determine_verdict(policy_analysis, violations, findings)
DetermineVerdict ==
    /\ entry = "_determine_verdict" /\ pc = "violations"
    /\ new_result' = PolicyDetermineVerdict(violations)
    /\ pc' = "determined"
    /\ UNCHANGED <<policy_vars, entry, check, weights, state, voting_result, executed,
                   result, raised>>

NextPolicy ==
    \/ AddViolation
    \/ DetermineVerdict

SpecPolicy == InitPolicy /\ [][NextPolicy]_vars

\* The number of violations of the list with the given severity
WithSeverity(severity) ==
    Cardinality({i \in DOMAIN violations : violations[i].severity = severity})

\* The tier the claim gives to the violation list, by its first matching rule
ClaimedTier ==
    IF Len(violations) = 0 THEN <<"not_fraud", "low">>
    ELSE IF (\E i \in DOMAIN violations : violations[i].action = "reject")
            \/ WithSeverity("critical") >= 1
    THEN <<"fraud", "critical">>
    ELSE IF WithSeverity("high") >= 2
            \/ (WithSeverity("high") >= 1 /\ WithSeverity("medium") >= 2)
    THEN <<"fraud", "high">>
    ELSE IF WithSeverity("high") >= 1 THEN <<"review", "high">>
    ELSE IF WithSeverity("medium") >= 2 THEN <<"review", "medium">>
    ELSE <<"review", "low">>

\* C14: the policy stage's verdict and risk level are those of the first
\* matching tier: no violation gives not_fraud (risk low); a reject action or
\* a critical violation gives fraud/critical; two high, or one high and two
\* medium, give fraud/high; one high gives review/high; two medium give
\* review/medium; anything else review/low.
C14_PolicyTiers ==
    (entry = "_determine_verdict" /\ pc = "determined") =>
        <<new_result.verdict, new_result.risk_level>> = ClaimedTier

\* One high and one medium violation without reject: review/high, not fraud
C14_OneHighOneMedium ==
    /\ entry = "_determine_verdict" /\ pc = "determined"
    /\ WithSeverity("high") = 1 /\ WithSeverity("medium") = 1
    /\ Len(violations) = 2
    /\ \A i \in DOMAIN violations : violations[i].action # "reject"
    /\ new_result.verdict = "review" /\ new_result.risk_level = "high"

----------------------------------------------------------------------------
(* PolicyDatabase.evaluate_check as a function of the rules, the           *)
(* instrument, the account and the statistics.                             *)

\* Check: memo is optional, metadata is a free-form dict
Instruments ==
    {[amount |-> Num(amount), payee |-> Str(payee), memo |-> memo,
      has_watermark |-> Bool(has_watermark),
      signature_present |-> Bool(signature_present), metadata |-> metadata] :
        amount \in {500, 6000}, payee \in {"CASH", "JOHN DOE", "Acme"},
        memo \in {NoneValue, Str("rent")},
        has_watermark \in BOOLEAN, signature_present \in BOOLEAN,
        metadata \in
            {[k \in {} |-> NoneValue],
             [device |-> Str("Emulator")],
             [device |-> Str("iPhone"), image_quality_score |-> Num(50)],
             [image_quality_score |-> Num(90)],
             [image_quality_score |-> Str("high")]}}

\* Client, or None
Accounts ==
    {NoneValue} \cup
    {[t |-> "client", name |-> Str("John Doe"), typical_payees |-> typical_payees,
      account_opened_date |-> Num(days_ago)] :
        typical_payees \in {<<>>, <<"ACME">>}, days_ago \in {30, 400}}

\* TransactionDatabase.get_transaction_statistics, or None
Statistics ==
    {NoneValue} \cup
    {[t |-> "stats", average_amount |-> average_amount] : average_amount \in {0, 100}}

\* Rules added to the database besides the sample ones
ExtraPolicies ==
    { FraudPolicy("POL013", "geo_fence",
          [field |-> FieldName("", "payee"), operator |-> "equals"],
          "reject", "critical"),
      FraudPolicy("POL013", "velocity", [max_count |-> 0], "reject", "critical"),
      FraudPolicy("POL013", "validation",
          [fields |-> <<"amount">>, operator |-> "must_differ"], "reject", "critical"),
      FraudPolicy("POL013", "boolean",
          [field |-> FieldName("", "is_certified"), value |-> Bool(FALSE)],
          "flag_for_review", "medium"),
      FraudPolicy("POL013", "threshold",
          [field |-> FieldName("", "account_age_days"),
           operator |-> "less_than", threshold |-> 90],
          "flag_for_review", "medium"),
      FraudPolicy("POL013", "pattern",
          [field |-> FieldName("", "memo"), pattern |-> "rent",
           case_insensitive |-> FALSE],
          "flag_for_review", "medium"),
      FraudPolicy("POL013", "compound",
          [all |-> <<>>,
           any |-> << Condition(FieldName("", "memo"), "equals", Str("rent"), 100),
                      Condition(FieldName("metadata", "image_quality_score"),
                                "less_than", Num(60), 100) >>],
          "flag_for_review", "medium"),
      FraudPolicy("POL013", "list_check",
          [field |-> FieldName("", "payee"), operator |-> "in",
           reference |-> FieldName("client", "typical_payees")],
          "flag_for_review", "medium"),
      FraudPolicy("POL013", "list_check",
          [field |-> FieldName("", "memo"), operator |-> "not_in",
           reference |-> FieldName("client", "typical_payees")],
          "flag_for_review", "medium"),
      FraudPolicy("POL013", "comparison",
          [field |-> FieldName("", "payee"), operator |-> "not_equals",
           reference |-> FieldName("client", "name")],
          "flag_for_review", "medium") }

InitRules ==
    /\ entry = "evaluate_check"
    /\ pc = "start"
    /\ check \in Instruments
    /\ weights = DEFAULT_WEIGHTS
    /\ state = create_initial_state("None")
    /\ voting_result = NoVote
    /\ executed = <<>>
    /\ result = NoResult
    /\ raised = "None"
    /\ new_result = NoUpdate
    /\ policies \in {create_fraud_policies}
                    \cup {Append(create_fraud_policies, p) : p \in ExtraPolicies}
    /\ client \in Accounts
    /\ transaction_stats \in Statistics
    /\ violations = <<>>

\* violations = self.policy_db.evaluate_check(check, client, stats)
EvaluateCheck ==
    /\ entry = "evaluate_check" /\ pc = "start"
    /\ IF EvaluateCheckRaises(policies, check, client, transaction_stats)
       THEN /\ pc' = "raised"
            /\ raised' = "TypeError"
            /\ UNCHANGED violations
       ELSE /\ pc' = "evaluated"
            /\ violations' = evaluate_check(policies, check, client, transaction_stats)
            /\ UNCHANGED raised
    /\ UNCHANGED <<entry, check, weights, state, voting_result, executed, result,
                   new_result, policies, client, transaction_stats>>

NextRules ==
    \/ EvaluateCheck

SpecRules == InitRules /\ [][NextRules]_vars

\* The outcome of evaluating the i-th rule on the inputs
RuleOutcome(i) == _evaluate_policy(policies[i], check, client, transaction_stats)

\* The value of a field is None: absent from the instrument or its metadata,
\* or read from a null account
Unresolved(field) == _get_field_value(field, check, client).t = "none"

\* The i-th rule refers to a field or an account list that cannot be resolved
RuleUnresolved(i) ==
    LET conditions == policies[i].conditions
    IN  CASE policies[i].rule_type \in {"boolean", "threshold", "pattern"} ->
                Unresolved(conditions.field)
          [] policies[i].rule_type = "compound" ->
                \A j \in DOMAIN (conditions.all \o conditions.any) :
                    Unresolved((conditions.all \o conditions.any)[j].field)
          [] policies[i].rule_type = "list_check" ->
                Unresolved(conditions.field) \/ client.t = "none"
          [] policies[i].rule_type = "comparison" ->
                Unresolved(conditions.field) \/ Unresolved(conditions.reference)
          [] OTHER -> FALSE

\* C15: a rule of kind boolean, threshold, pattern, compound, list_check or
\* comparison whose referenced field or account list cannot be resolved
\* raises no error and yields no violation.
C15_UnresolvedRuleDoesNotFire ==
    entry = "evaluate_check" =>
        \A i \in DOMAIN policies :
            RuleUnresolved(i) =>
                /\ RuleOutcome(i).raises = "None"
                /\ ~RuleOutcome(i).violated
                /\ \A j \in DOMAIN violations :
                      violations[j].policy_id # policies[i].policy_id

InertKinds == {"velocity", "validation"}
KnownKinds ==
    {"boolean", "threshold", "pattern", "compound", "list_check", "comparison"}
        \cup InertKinds

\* The i-th rule is of kind velocity or validation, or of no known kind
Inert(i) == policies[i].rule_type \in InertKinds \/ policies[i].rule_type \notin KnownKinds

\* C16: a rule of kind velocity, validation or of an unrecognized kind is
\* never in the violation list returned by evaluate_check, and evaluating it
\* never raises, for every instrument, account and statistics.
C16_InertRulesNeverViolated ==
    entry = "evaluate_check" =>
        \A i \in DOMAIN policies :
            Inert(i) =>
                /\ RuleOutcome(i).raises = "None"
                /\ \A j \in DOMAIN violations :
                      violations[j].policy_id # policies[i].policy_id

\* evaluate_check returned violations, none of them the rule of unknown kind
\* nor the velocity and validation rules that were evaluated with it
C16_ViolationsBesideInertRules ==
    /\ entry = "evaluate_check" /\ pc = "evaluated"
    /\ violations # <<>>
    /\ \E i \in DOMAIN policies : policies[i].rule_type \notin KnownKinds
    /\ \E i \in DOMAIN policies : policies[i].rule_type = "velocity"
    /\ \E i \in DOMAIN policies : policies[i].rule_type = "validation"

----------------------------------------------------------------------------
(* The stages of the pipeline, one by one *)

\* The verdicts of the record that carry the analyzer's name
VerdictsOf(name) ==
    {i \in DOMAIN state.agent_verdicts : state.agent_verdicts[i].agent_name = name}

\* The entries of executed for the stage
RunsOf(stage) == {i \in DOMAIN executed : executed[i].stage = stage}

\* C17: when the repository does not know the instrument's client, the
\* transaction-history stage does not raise, the record holds exactly one
\* verdict of that stage, review with risk high and confidence 0.6, and the
\* stage's partial update carries the flag unknown_client.
C17_UnknownClientVerdict ==
    (RunsOf("transaction_analysis") # {} /\ ~check.client_in_repository) =>
        /\ \A i \in RunsOf("transaction_analysis") : ~executed[i].raised
        /\ Cardinality(VerdictsOf(TRANSACTION_AGENT)) = 1
        /\ \A i \in VerdictsOf(TRANSACTION_AGENT) :
              state.agent_verdicts[i]
                  = AgentVerdict(TRANSACTION_AGENT, "review", 6000, "high")
        /\ pc = "policy_analysis" =>
              \E i \in DOMAIN state.all_flags : state.all_flags[i] = "unknown_client"

\* The physical stage raised, the client is unknown, and the record that
\* reaches the policy stage holds the one verdict of the unknown client
C17_OnlyTheUnknownClientVerdict ==
    /\ pc = "policy_analysis" /\ ~check.client_in_repository
    /\ \E i \in RunsOf("check_analysis") : executed[i].raised
    /\ state.agent_verdicts
          = <<AgentVerdict(TRANSACTION_AGENT, "review", 6000, "high")>>
    /\ state.all_flags = <<"unknown_client">>

\* C18: when the collaborator's call fails or its answer is malformed (not a
\* mapping, or a confidence outside [0, 1]), nothing escapes the pipeline and
\* the record holds exactly one verdict of the holistic stage, the fallback:
\* review, confidence 0.3, risk medium.
C18_FallbackOnCollaboratorError ==
    \A i \in RunsOf("generic_analysis") :
        executed[i].collaborator \in {"error", "malformed", "invalid_confidence"} =>
            /\ raised = "None"
            /\ Cardinality(VerdictsOf(GENERIC_AGENT)) = 1
            /\ \A j \in VerdictsOf(GENERIC_AGENT) :
                  state.agent_verdicts[j]
                      = AgentVerdict(GENERIC_AGENT, "review", 3000, "medium")

\* The run ended: a result was returned or an exception reached the caller
Ended == pc \in {"returned", "raised"}

\* C19: for an instrument without watermark or without signature, a run in
\* which the workflow was built and no stage raised returns a result in which
\* the physical stage's verdict is fraud or review with risk high or
\* critical, the final verdict is not not_fraud and the final risk level is
\* high or critical.
C19_MissingSecurityFeature ==
    (/\ Ended
     /\ ~check.has_watermark \/ ~check.signature_present
     /\ raised # "ValueError"
     /\ \A i \in DOMAIN executed : ~executed[i].raised) =>
        /\ pc = "returned"
        /\ \E i \in DOMAIN result.agent_verdicts :
              /\ result.agent_verdicts[i].agent_name = CHECK_AGENT
              /\ result.agent_verdicts[i].verdict \in {"fraud", "review"}
              /\ result.agent_verdicts[i].risk_level \in {"high", "critical"}
        /\ result.final_verdict # "not_fraud"
        /\ result.final_risk_level \in {"high", "critical"}

\* The failures of the run so far: the stages that raised and the holistic
\* stage's failed collaborator calls
Failures ==
    {i \in DOMAIN executed :
        \/ executed[i].raised
        \/ executed[i].stage = "generic_analysis" /\ executed[i].collaborator = "error"}

\* C20: the record's error list holds one entry for each failure of the run
\* so far, so an entry recorded by an earlier stage is still there when a
\* later stage fails.
C20_ErrorsAccumulate ==
    entry = "run_fraud_detection" =>
        Len(state.processing_errors) = Cardinality(Failures)

(***************************************************************************)
(* The policy stage's verdict as the violation list grows                  *)
(***************************************************************************)

\* The six tiers of the policy verdict, lowest first
PolicyTiers ==
    << <<"not_fraud", "low">>, <<"review", "low">>, <<"review", "medium">>,
       <<"review", "high">>, <<"fraud", "high">>, <<"fraud", "critical">> >>

\* The position of a verdict's tier in that order, 0 when it is none of them
TierOrdinal(verdict) ==
    LET tier == <<verdict.verdict, verdict.risk_level>>
    IN  IF \E i \in DOMAIN PolicyTiers : PolicyTiers[i] = tier
        THEN CHOOSE i \in DOMAIN PolicyTiers : PolicyTiers[i] = tier
        ELSE 0

\* The violations evaluate_check can report beside those already reported
OneMoreViolation ==
    { [policy_id |-> "POL001", severity |-> severity, action |-> action] :
          severity \in RiskLevel, action \in PolicyActions }

\* C30: the policy stage's verdict is monotonic in the violations: adding one
\* violation to the list never lowers the tier of the verdict in the order
\* not_fraud/low < review/low < review/medium < review/high < fraud/high <
\* fraud/critical.
C30_MoreViolationsNeverLowerTheTier ==
    (entry = "_determine_verdict" /\ pc = "determined") =>
        /\ TierOrdinal(new_result) >= 1
        /\ \A added \in OneMoreViolation :
              TierOrdinal(PolicyDetermineVerdict(Append(violations, added)))
                  >= TierOrdinal(new_result)

\* Two medium violations give review/medium; a third one keeps that tier and a
\* high one raises it to fraud/high
C30_ThirdMediumKeepsTheTier ==
    /\ entry = "_determine_verdict" /\ pc = "determined"
    /\ Len(violations) = 2
    /\ \A i \in DOMAIN violations :
          violations[i].severity = "medium" /\ violations[i].action # "reject"
    /\ TierOrdinal(new_result) = 3
    /\ \E added \in OneMoreViolation :
          /\ added.severity = "medium" /\ added.action # "reject"
          /\ TierOrdinal(PolicyDetermineVerdict(Append(violations, added))) = 3
    /\ \E added \in OneMoreViolation :
          TierOrdinal(PolicyDetermineVerdict(Append(violations, added))) = 5

(***************************************************************************)
(* The final risk level and the verdicts of critical risk                  *)
(***************************************************************************)

\* C26: for every non-empty verdict list, whatever the confidences and the
\* non-negative weights, the final risk level is critical if and only if at
\* least one verdict has risk level critical: the weighted average of the
\* risk ordinals never reaches 3.5 without a critical verdict.
C26_CriticalOnlyFromACriticalVerdict ==
    (Aggregated /\ state.agent_verdicts # <<>>) =>
        (voting_result.final_risk_level = "critical"
            <=> \E i \in DOMAIN state.agent_verdicts :
                    state.agent_verdicts[i].risk_level = "critical")

\* Three verdicts of risk high and full confidence average 3.0: the final risk
\* level is high
C26_AllHighStaysHigh ==
    /\ Aggregated
    /\ Len(state.agent_verdicts) = 3
    /\ \A i \in DOMAIN state.agent_verdicts :
          /\ state.agent_verdicts[i].risk_level = "high"
          /\ state.agent_verdicts[i].confidence = One
    /\ voting_result.final_risk_level = "high"

(***************************************************************************)
(* Python floats. A float is an IEEE 754 binary64 number: the aggregator's *)
(* sums, products and quotients are rounded to 53 significant bits, ties   *)
(* to even. Every float of the aggregator is non-negative and far from the *)
(* subnormal and overflow ranges, so a float is modelled as mantissa *     *)
(* 2^exponent with a mantissa of exactly 53 bits (or zero), the mantissa   *)
(* held as a natural number in limbs of 15 bits, least significant first.  *)
(***************************************************************************)

LimbBits == 15

Limb == 2^LimbBits

MantissaBits == 53

\* 2^k for a k inside one limb
RECURSIVE Pow2(_)
Pow2(k) == IF k = 0 THEN 1 ELSE 2 * Pow2(k - 1)

\* The limbs without leading zero limbs
RECURSIVE Trim(_)
Trim(a) ==
    IF a = <<>> THEN a
    ELSE IF a[Len(a)] = 0 THEN Trim(SubSeq(a, 1, Len(a) - 1))
    ELSE a

\* The limbs of a natural number small enough to be a machine integer
RECURSIVE NatLimbs(_)
NatLimbs(n) == IF n = 0 THEN <<>> ELSE <<n % Limb>> \o NatLimbs(n \div Limb)

LimbAt(a, i) == IF i <= Len(a) THEN a[i] ELSE 0

\* -1, 0 or 1 as a < b, a = b or a > b; from limb i downwards
RECURSIVE CmpFrom(_, _, _)
CmpFrom(a, b, i) ==
    IF i = 0 THEN 0
    ELSE IF LimbAt(a, i) < LimbAt(b, i) THEN -1
    ELSE IF LimbAt(a, i) > LimbAt(b, i) THEN 1
    ELSE CmpFrom(a, b, i - 1)

NatCmp(a, b) == CmpFrom(a, b, IF Len(a) > Len(b) THEN Len(a) ELSE Len(b))

RECURSIVE AddFrom(_, _, _, _)
AddFrom(a, b, i, carry) ==
    IF i > Len(a) /\ i > Len(b)
    THEN IF carry = 0 THEN <<>> ELSE <<carry>>
    ELSE LET sum == LimbAt(a, i) + LimbAt(b, i) + carry
         IN  <<sum % Limb>> \o AddFrom(a, b, i + 1, sum \div Limb)

NatAdd(a, b) == AddFrom(a, b, 1, 0)

\* a - b for a >= b
RECURSIVE SubFrom(_, _, _, _)
SubFrom(a, b, i, borrow) ==
    IF i > Len(a) THEN <<>>
    ELSE LET diff == a[i] - LimbAt(b, i) - borrow
         IN  IF diff < 0
             THEN <<diff + Limb>> \o SubFrom(a, b, i + 1, 1)
             ELSE <<diff>> \o SubFrom(a, b, i + 1, 0)

NatSub(a, b) == Trim(SubFrom(a, b, 1, 0))

\* a * k for one limb k
RECURSIVE MulLimbFrom(_, _, _, _)
MulLimbFrom(a, k, i, carry) ==
    IF i > Len(a)
    THEN IF carry = 0 THEN <<>> ELSE <<carry>>
    ELSE LET product == a[i] * k + carry
         IN  <<product % Limb>> \o MulLimbFrom(a, k, i + 1, product \div Limb)

MulLimb(a, k) == Trim(MulLimbFrom(a, k, 1, 0))

ZeroLimbs(n) == [i \in 1..n |-> 0]

RECURSIVE MulFrom(_, _, _)
MulFrom(a, b, i) ==
    IF i > Len(b) THEN <<>>
    ELSE NatAdd(IF b[i] = 0 THEN <<>> ELSE ZeroLimbs(i - 1) \o MulLimb(a, b[i]),
                MulFrom(a, b, i + 1))

NatMul(a, b) == Trim(MulFrom(a, b, 1))

\* a * 2^k
ShiftLeft(a, k) ==
    IF a = <<>> THEN a
    ELSE ZeroLimbs(k \div LimbBits) \o MulLimb(a, Pow2(k % LimbBits))

\* floor(a / d) for one limb d, from limb i downwards
RECURSIVE DivLimbFrom(_, _, _, _)
DivLimbFrom(a, d, i, rem) ==
    IF i = 0 THEN <<>>
    ELSE LET cur == rem * Limb + a[i]
         IN  DivLimbFrom(a, d, i - 1, cur % d) \o <<cur \div d>>

\* floor(a / 2^k)
ShiftRight(a, k) ==
    IF k \div LimbBits >= Len(a) THEN <<>>
    ELSE LET kept == SubSeq(a, k \div LimbBits + 1, Len(a))
         IN  Trim(DivLimbFrom(kept, Pow2(k % LimbBits), Len(kept), 0))

RECURSIVE BitsOfLimb(_)
BitsOfLimb(n) == IF n = 0 THEN 0 ELSE 1 + BitsOfLimb(n \div 2)

\* The number of significant bits of a (trimmed)
BitLength(a) ==
    IF a = <<>> THEN 0 ELSE (Len(a) - 1) * LimbBits + BitsOfLimb(a[Len(a)])

IsOdd(a) == a # <<>> /\ a[1] % 2 = 1

Zero64 == [m |-> <<>>, e |-> 0]

\* A mantissa of MantissaBits + 1 bits after rounding up is a power of two
Normalized(rounded, e) ==
    IF BitLength(rounded) > MantissaBits
    THEN [m |-> ShiftRight(rounded, 1), e |-> e + 1]
    ELSE [m |-> rounded, e |-> e]

\* kept * 2^e or the float above it: side says whether the dropped bits are
\* below (-1), at (0) or above (1) half of the last kept bit
RoundedToEven(kept, e, side, inexact) ==
    Normalized(IF side > 0 \/ (side = 0 /\ (inexact \/ IsOdd(kept)))
               THEN NatAdd(kept, <<1>>) ELSE kept, e)

\* n with its last drop bits rounded away, kept being floor(n / 2^drop)
RoundedAway(n, e, inexact, drop, kept) ==
    RoundedToEven(kept, e + drop,
                  NatCmp(NatSub(n, ShiftLeft(kept, drop)), ShiftLeft(<<1>>, drop - 1)),
                  inexact)

RoundedFrom(n, e, inexact, bits) ==
    IF bits = 0 THEN Zero64
    ELSE IF bits <= MantissaBits
    THEN [m |-> ShiftLeft(n, MantissaBits - bits), e |-> e - (MantissaBits - bits)]
    ELSE RoundedAway(n, e, inexact, bits - MantissaBits,
                     ShiftRight(n, bits - MantissaBits))

\* The float nearest to n * 2^e (ties to even), where inexact says that the
\* true value is a little above n * 2^e
Round64(n, e, inexact) == RoundedFrom(n, e, inexact, BitLength(n))

\* float.__add__; a term more than MantissaBits + 2 binary places below the
\* other is less than a quarter of the other's last bit and is rounded away
float_add(x, y) ==
    IF x.m = <<>> THEN y
    ELSE IF y.m = <<>> THEN x
    ELSE IF x.e - y.e > MantissaBits + 2 THEN x
    ELSE IF y.e - x.e > MantissaBits + 2 THEN y
    ELSE LET low == IF x.e < y.e THEN x.e ELSE y.e
         IN  Round64(NatAdd(ShiftLeft(x.m, x.e - low), ShiftLeft(y.m, y.e - low)),
                     low, FALSE)

\* float.__sub__ for x >= y
float_sub(x, y) ==
    IF y.m = <<>> THEN x
    ELSE IF x.e - y.e > MantissaBits + 2 THEN x
    ELSE LET low == IF x.e < y.e THEN x.e ELSE y.e
         IN  Round64(NatSub(ShiftLeft(x.m, x.e - low), ShiftLeft(y.m, y.e - low)),
                     low, FALSE)

\* float.__mul__
float_mul(x, y) == Round64(NatMul(x.m, y.m), x.e + y.e, FALSE)

\* The quotient bits of rem / d, most significant first, for rem < 2 * d
RECURSIVE DivBits(_, _, _, _)
DivBits(rem, d, count, quotient) ==
    IF count = 0 THEN [q |-> quotient, inexact |-> rem # <<>>]
    ELSE IF Len(quotient) >= 0 /\ NatCmp(rem, d) >= 0
    THEN DivBits(MulLimb(NatSub(rem, d), 2), d, count - 1,
                 NatAdd(MulLimb(quotient, 2), <<1>>))
    ELSE DivBits(MulLimb(rem, 2), d, count - 1, MulLimb(quotient, 2))

RoundedQuotient(division, e) == Round64(division.q, e, division.inexact)

\* float.__truediv__ for a divisor that is not zero
float_truediv(x, y) ==
    IF x.m = <<>> THEN Zero64
    ELSE RoundedQuotient(DivBits(x.m, y.m, MantissaBits + 3, <<>>),
                         x.e - y.e - (MantissaBits + 2))

\* -1, 0 or 1 as x < y, x = y or x > y
float_cmp(x, y) ==
    IF x.m = <<>> THEN (IF y.m = <<>> THEN 0 ELSE -1)
    ELSE IF y.m = <<>> THEN 1
    ELSE IF x.e < y.e THEN -1
    ELSE IF x.e > y.e THEN 1
    ELSE NatCmp(x.m, y.m)

\* float(n) for a small natural number
float_of_int(n) == Round64(NatLimbs(n), 0, FALSE)

\* The float a decimal literal denotes: n / d for a power of ten d, rounded once
Literal(n, d) == float_truediv(float_of_int(n), float_of_int(d))

\* math.nextafter(x, math.inf) for x > 0
NextUp(x) == Round64(NatAdd(x.m, <<1>>), x.e, FALSE)

(***************************************************************************)
(* The aggregator in floats: the same code as above, with every sum,       *)
(* product and quotient rounded as Python rounds it. A verdict's           *)
(* confidence is a float here.                                             *)
(***************************************************************************)

\* DEFAULT_WEIGHTS with its values as the floats 1.0, 1.0, 1.2 and 1.5
DEFAULT_WEIGHTS_float ==
    [name \in DOMAIN DEFAULT_WEIGHTS |-> Literal(DEFAULT_WEIGHTS[name], 10)]

One64 == Literal(1, 1)

\* The float literals of the aggregator
Float0_3 == Literal(3, 10)

Float0_5 == Literal(5, 10)

Float0_6 == Literal(6, 10)

Float0_8 == Literal(8, 10)

Float0_85 == Literal(85, 100)

Float0_95 == Literal(95, 100)

Float1_5 == Literal(15, 10)

Float2_5 == Literal(25, 10)

Float3_5 == Literal(35, 10)


\* self.weights.get(verdict.agent_name, 1.0)
float_WeightOf(w, name) == IF name \in DOMAIN w THEN w[name] ELSE One64

\* The loop of _calculate_voting_summary over verdicts[1..i]: weighted_scores
\* and total_weight after the i-th verdict
RECURSIVE SummaryLoop(_, _, _)
SummaryLoop(w, verdicts, i) ==
    IF i = 0
    THEN [weighted_scores |-> [cls \in ScoredClasses |-> Zero64],
          total_weight |-> Zero64]
    ELSE LET before == SummaryLoop(w, verdicts, i - 1)
             verdict == verdicts[i]
             confidence_adjusted_weight ==
                float_mul(float_WeightOf(w, verdict.agent_name), verdict.confidence)
         IN  [weighted_scores |->
                 [before.weighted_scores EXCEPT ![verdict.verdict] =
                     float_add(@, confidence_adjusted_weight)],
              total_weight |-> float_add(before.total_weight, confidence_adjusted_weight)]

_calculate_voting_summary_float(w, verdicts) ==
    LET after == SummaryLoop(w, verdicts, Len(verdicts))
    IN  [total_agents |-> Len(verdicts),
         vote_counts |->
            [cls \in {verdicts[i].verdict : i \in DOMAIN verdicts} |->
                Cardinality({i \in DOMAIN verdicts : verdicts[i].verdict = cls})],
         weighted_scores |-> after.weighted_scores,
         normalized_scores |->
            IF float_cmp(after.total_weight, Zero64) > 0
            THEN [cls \in ScoredClasses |->
                     float_truediv(after.weighted_scores[cls], after.total_weight)]
            ELSE [cls \in FraudVerdict |-> Zero64],
         total_weight |-> after.total_weight]

float_max(x, y) == IF float_cmp(y, x) > 0 THEN y ELSE x

float_min(x, y) == IF float_cmp(y, x) < 0 THEN y ELSE x

\* Returns <<final verdict, final confidence>>.
_determine_final_verdict_float(verdicts, summary) ==
    LET normalized == summary.normalized_scores
        fraud_score == normalized["fraud"]
        not_fraud_score == normalized["not_fraud"]
        review_score == normalized["review"]
    IN  IF any_critical_fraud(verdicts)
        THEN <<"fraud", float_max(Float0_85, fraud_score)>>
        ELSE IF float_cmp(fraud_score, Float0_5) > 0
        THEN <<"fraud",
               float_min(float_add(Float0_6,
                                   float_mul(float_sub(fraud_score, Float0_5),
                                             Float0_8)),
                         Float0_95)>>
        ELSE IF float_cmp(not_fraud_score, Float0_6) > 0
        THEN <<"not_fraud",
               float_min(float_add(Float0_6,
                                   float_mul(float_sub(not_fraud_score, Float0_6),
                                             Float0_8)),
                         Float0_95)>>
        ELSE IF \/ float_cmp(fraud_score, Float0_3) > 0
                \/ float_cmp(review_score, Float0_3) > 0
        THEN <<"review",
               float_min(float_add(Float0_5,
                                   float_mul(review_score, Float0_3)),
                         Float0_85)>>
        ELSE <<"not_fraud", float_add(not_fraud_score, Float0_3)>>

\* The loop of _determine_final_risk_level over verdicts[1..i]
RECURSIVE RiskLoop(_, _, _)
RiskLoop(w, verdicts, i) ==
    IF i = 0 THEN [weighted_risk |-> Zero64, total_weight |-> Zero64]
    ELSE LET before == RiskLoop(w, verdicts, i - 1)
             verdict == verdicts[i]
             weight == float_mul(float_WeightOf(w, verdict.agent_name),
                                 verdict.confidence)
             risk_value == RiskOrdinal(verdict.risk_level)
         IN  [weighted_risk |->
                 float_add(before.weighted_risk,
                           float_mul(float_of_int(risk_value), weight)),
              total_weight |-> float_add(before.total_weight, weight)]

_determine_final_risk_level_float(w, verdicts) ==
    LET after == RiskLoop(w, verdicts, Len(verdicts))
        avg_risk == IF float_cmp(after.total_weight, Zero64) > 0
                    THEN float_truediv(after.weighted_risk, after.total_weight)
                    ELSE float_of_int(2)
        max_risk ==
            LET i == CHOOSE j \in DOMAIN verdicts :
                        \A k \in DOMAIN verdicts :
                            RiskOrdinal(verdicts[k].risk_level)
                                <= RiskOrdinal(verdicts[j].risk_level)
            IN  verdicts[i].risk_level
    IN  IF float_cmp(avg_risk, Float3_5) >= 0 \/ max_risk = "critical"
        THEN "critical"
        ELSE IF float_cmp(avg_risk, Float2_5) >= 0 THEN "high"
        ELSE IF float_cmp(avg_risk, Float1_5) >= 0 THEN "medium"
        ELSE "low"

\* VotingAggregator.aggregate for a non-empty verdict list of scored outcomes
aggregate_float(w, st) ==
    LET verdicts == st.agent_verdicts
    IN  IF verdicts = <<>>
        THEN [_no_verdicts_result EXCEPT !.final_confidence = Zero64]
        ELSE LET voting_summary == _calculate_voting_summary_float(w, verdicts)
                 final == _determine_final_verdict_float(verdicts, voting_summary)
             IN  [final_verdict |-> final[1],
                  final_confidence |-> final[2],
                  final_risk_level |-> _determine_final_risk_level_float(w, verdicts),
                  consensus_reached |-> _check_consensus(verdicts, final[1]),
                  voting_summary |-> voting_summary,
                  all_flags |-> ListOfSet(st.all_flags),
                  current_step |-> "voting_complete"]

(***************************************************************************)
(* aggregate called on verdict lists with float confidences                *)
(***************************************************************************)

FloatAnalyzers == {CHECK_AGENT, TRANSACTION_AGENT, POLICY_AGENT}

\* AgentVerdict.confidence values: 0.1, 0.2, 0.25 and the float next above 0.2
FloatConfidences ==
    {Literal(1, 10), Literal(2, 10), NextUp(Literal(2, 10)), Literal(25, 100)}

FloatRiskLevels == {"low", "high"}

InitFloat ==
    /\ entry = "aggregate"
    /\ pc = "float_verdicts"
    /\ check = [has_watermark |-> TRUE, signature_present |-> TRUE,
                client_in_repository |-> TRUE]
    /\ weights = DEFAULT_WEIGHTS_float
    /\ state = create_initial_state("None")
    /\ voting_result = NoVote
    /\ executed = <<>>
    /\ result = NoResult
    /\ raised = "None"
    /\ new_result = NoUpdate
    /\ NoPolicyEvaluation

\* The caller's record gains one more AgentVerdict before aggregate is called
AddFloatVerdict ==
    /\ entry = "aggregate" /\ pc = "float_verdicts"
    /\ \E name \in FloatAnalyzers, verdict \in ScoredClasses,
          confidence \in FloatConfidences, risk_level \in FloatRiskLevels :
          /\ \A i \in DOMAIN state.agent_verdicts :
                StageOf(state.agent_verdicts[i].agent_name) < StageOf(name)
          /\ state' = [state EXCEPT !.agent_verdicts =
                          Append(@, AgentVerdict(name, verdict, confidence, risk_level))]
    /\ UNCHANGED <<policy_vars, entry, pc, check, weights, voting_result, executed,
                   result, raised, new_result>>

\* VotingAggregator(weights).aggregate(state)
AggregateFloat ==
    /\ entry = "aggregate" /\ pc = "float_verdicts"
    /\ pc' = "float_aggregated"
    /\ voting_result' = aggregate_float(weights, state)
    /\ UNCHANGED <<policy_vars, entry, check, weights, state, executed, result, raised,
                   new_result>>

NextFloat ==
    \/ AddFloatVerdict
    \/ AggregateFloat

SpecFloat == InitFloat /\ [][NextFloat]_vars



\* aggregate has returned for a non-empty list of float-confidence verdicts
FloatAggregated ==
    entry = "aggregate" /\ pc = "float_aggregated" /\ state.agent_verdicts # <<>>

\* What the aggregator decides: the final verdict, the final risk level, the
\* consensus flag and the normalized scores
DecisionOf(outcome) ==
    <<outcome.final_verdict, outcome.final_risk_level, outcome.consensus_reached,
      outcome.voting_summary.normalized_scores>>

\* The same verdicts in the order given by the permutation p of their positions
Permuted(verdicts, p) == [i \in DOMAIN verdicts |-> verdicts[p[i]]]

\* C28: the final verdict, the final risk level, the consensus flag and the
\* normalized scores do not depend on the order of the verdicts: aggregate
\* gives the same values for every permutation of the same list of verdicts of
\* distinct analyzers.
C28_OrderOfVerdictsIsIrrelevant ==
    FloatAggregated =>
        \A p \in Permutations(DOMAIN state.agent_verdicts) :
            DecisionOf(aggregate_float(weights,
                [state EXCEPT !.agent_verdicts = Permuted(state.agent_verdicts, p)]))
                = DecisionOf(voting_result)

\* The verdicts with the confidence of the i-th one replaced
WithConfidence(verdicts, i, confidence) ==
    [verdicts EXCEPT ![i] = [@ EXCEPT !.confidence = confidence]]

\* C22: the aggregator is monotonic: for outcomes among fraud, not_fraud and
\* review and non-negative weights, raising the confidence of one verdict,
\* the others unchanged, never decreases the normalized score of that
\* verdict's outcome.
C22_RaisedConfidenceNeverLowersTheScore ==
    FloatAggregated =>
        \A i \in DOMAIN state.agent_verdicts, confidence \in FloatConfidences :
            float_cmp(confidence, state.agent_verdicts[i].confidence) > 0 =>
                float_cmp(
                    _calculate_voting_summary_float(weights,
                        WithConfidence(state.agent_verdicts, i, confidence))
                            .normalized_scores[state.agent_verdicts[i].verdict],
                    voting_result.voting_summary
                        .normalized_scores[state.agent_verdicts[i].verdict]) >= 0

----------------------------------------------------------------------------
(* The account of the caller *)

\* C29: an account passed by the caller is never replaced or cleared by a
\* stage: in every step of the pipeline, a record that holds the caller's
\* account holds the caller's account afterwards (so after the
\* transaction-history stage's update is merged, and when the policy stage
\* reads the record).
C29_CallerAccountIsKept ==
    [][state.client = "caller" => state'.client = "caller"]_vars

----------------------------------------------------------------------------
(* The record's flag collection *)

\* The flags a completed stage has emitted whatever the repositories and the
\* tools answered: the physical stage emits "missing_watermark" for a check
\* without a watermark and "missing_signature" for a check without a
\* signature, the transaction-history stage emits "unknown_client" for a
\* client the repository does not know.
FlagsEmitted ==
    (IF ~check.has_watermark /\ "check_analysis" \in StagesThat(FALSE)
     THEN {"missing_watermark"} ELSE {})
    \cup (IF ~check.signature_present /\ "check_analysis" \in StagesThat(FALSE)
          THEN {"missing_signature"} ELSE {})
    \cup (IF ~check.client_in_repository /\ "transaction_analysis" \in StagesThat(FALSE)
          THEN {"unknown_client"} ELSE {})

\* C21: flags are unioned with deduplication across stages: after the last
\* analyzer stage and after voting, the record's flag collection contains
\* every flag emitted by every stage that completed, and no flag twice.
C21_FlagsAreUnioned ==
    pc \in {"voting", "END", "returned"} =>
        /\ \A flag \in FlagsEmitted :
              \E i \in DOMAIN state.all_flags : state.all_flags[i] = flag
        /\ \A i, j \in DOMAIN state.all_flags :
              state.all_flags[i] = state.all_flags[j] => i = j

----------------------------------------------------------------------------
(* One verdict for each completed stage *)

\* C23: every analyzer stage that completed has contributed exactly one
\* verdict carrying its own analyzer name, and a run of
\* run_fraud_detection_without_llm in which no stage failed returns a result
\* whose verdict list is one verdict each from check_analysis_agent,
\* transaction_history_agent and policy_analysis_agent, in that order, with
\* the summary's total_agents equal to the length of the list.
C23_OneVerdictPerCompletedStage ==
    /\ \A stage \in StagesThat(FALSE) :
          Cardinality({i \in DOMAIN state.agent_verdicts :
              state.agent_verdicts[i].agent_name = AgentOf(stage)}) = 1
    /\ (/\ entry = "run_fraud_detection_without_llm"
        /\ Ended
        /\ \A i \in DOMAIN executed : ~executed[i].raised) =>
            /\ pc = "returned"
            /\ [i \in DOMAIN result.agent_verdicts |-> result.agent_verdicts[i].agent_name]
                  = <<CHECK_AGENT, TRANSACTION_AGENT, POLICY_AGENT>>
            /\ result.voting_summary.total_agents = Len(result.agent_verdicts)

----------------------------------------------------------------------------
(* The record's step label *)

\* The stage run last, and the verdicts it left in the record
LastRun == executed[Len(executed)]

VerdictsOfLastRun ==
    {i \in DOMAIN state.agent_verdicts :
        state.agent_verdicts[i].agent_name = AgentOf(LastRun.stage)}

\* C24 as stated: the label starts at "initialized", is "<stage>_complete" or
\* "<stage>_error" after each analyzer stage, ends in "_error" only when that
\* stage contributed no verdict, and is "voting_complete" once voting has run,
\* also when the verdict list was empty.
C24_StepLabels ==
    entry = "run_fraud_detection" =>
        /\ executed = <<>> => state.current_step = "initialized"
        /\ (executed # <<>> /\ LastRun.stage \in AnalyzerStages) =>
              /\ state.current_step
                    \in {LastRun.stage \o "_complete", LastRun.stage \o "_error"}
              /\ state.current_step = LastRun.stage \o "_error" =>
                    VerdictsOfLastRun = {}
        /\ (executed # <<>> /\ LastRun.stage = "voting") =>
              state.current_step = "voting_complete"

\* The holistic stage's collaborator call failed and the stage did not raise
FellBack ==
    /\ LastRun.stage = "generic_analysis"
    /\ ~LastRun.raised
    /\ LastRun.collaborator = "error"

\* C24, amended: in run_fraud_detection the label starts at "initialized";
\* after an analyzer stage it is "<stage>_error" when the stage raised (and
\* then the stage contributed no verdict) or when the holistic stage fell back
\* on its collaborator's failure (and then it contributed one verdict), and
\* "<stage>_complete" otherwise; once voting has run it is "voting_complete"
\* for a non-empty verdict list and "voting_complete_no_verdicts" for an
\* empty one.
C24_StepLabelsOfTheCode ==
    entry = "run_fraud_detection" =>
        /\ executed = <<>> => state.current_step = "initialized"
        /\ (executed # <<>> /\ LastRun.stage \in AnalyzerStages) =>
              /\ state.current_step =
                    IF LastRun.raised \/ FellBack
                    THEN LastRun.stage \o "_error"
                    ELSE LastRun.stage \o "_complete"
              /\ Cardinality(VerdictsOfLastRun) = IF LastRun.raised THEN 0 ELSE 1
        /\ (executed # <<>> /\ LastRun.stage = "voting") =>
              state.current_step =
                  IF state.agent_verdicts = <<>>
                  THEN "voting_complete_no_verdicts"
                  ELSE "voting_complete"

\* Voting has run on an empty verdict list
C24_VotedOnNoVerdicts ==
    /\ entry = "run_fraud_detection" /\ pc = "END"
    /\ LastRun.stage = "voting"
    /\ state.agent_verdicts = <<>>
    /\ state.current_step = "voting_complete_no_verdicts"

----------------------------------------------------------------------------
(* Critical risk without the holistic stage *)

\* The analyzers of the physical, transaction-history and policy stages
RuleBasedAgents == {CHECK_AGENT, TRANSACTION_AGENT, POLICY_AGENT}

\* Voting has run on verdicts of the three rule-based stages only: what
\* run_fraud_detection_without_llm hands to voting, and what
\* run_fraud_detection hands to it when the holistic stage raised
VotedWithoutHolistic ==
    /\ executed # <<>>
    /\ LastRun.stage = "voting"
    /\ VerdictNames(state.agent_verdicts) \subseteq RuleBasedAgents

----------------------------------------------------------------------------
(* VotingAggregator._consolidate_recommendations.                          *)
(* A recommendation is the sequence of its tokens, the words and the       *)
(* punctuation marks of the string in order.  A keyword has neither blank  *)
(* nor punctuation, so it occurs in the string exactly when it occurs in   *)
(* one of the words.                                                       *)

MaxRecommendingVerdicts == 4

\* str.upper() on a word, for the words used below
upper(word) ==
    CASE word = "as" -> "AS"
      [] word = "bank" -> "BANK"
      [] word = "before" -> "BEFORE"
      [] word = "consistent" -> "CONSISTENT"
      [] word = "Contact" -> "CONTACT"
      [] word = "detected" -> "DETECTED"
      [] word = "do" -> "DO"
      [] word = "escalated" -> "ESCALATED"
      [] word = "forensics" -> "FORENSICS"
      [] word = "fraud" -> "FRAUD"
      [] word = "history" -> "HISTORY"
      [] word = "holder" -> "HOLDER"
      [] word = "image" -> "IMAGE"
      [] word = "indicators" -> "INDICATORS"
      [] word = "Manual" -> "MANUAL"
      [] word = "Multiple" -> "MULTIPLE"
      [] word = "not" -> "NOT"
      [] word = "passed" -> "PASSED"
      [] word = "pattern" -> "PATTERN"
      [] word = "payee" -> "PAYEE"
      [] word = "per" -> "PER"
      [] word = "policy" -> "POLICY"
      [] word = "processing" -> "PROCESSING"
      [] word = "reject" -> "REJECT"
      [] word = "required" -> "REQUIRED"
      [] word = "Review" -> "REVIEW"
      [] word = "review" -> "REVIEW"
      [] word = "suspicious" -> "SUSPICIOUS"
      [] word = "unsigned" -> "UNSIGNED"
      [] word = "verification" -> "VERIFICATION"
      [] word = "Verify" -> "VERIFY"
      [] word = "was" -> "WAS"
      [] OTHER -> word

\* keyword in WORD, for an upper-case word: the word is the keyword or one of
\* the longer words that have it as a substring
KeywordInWord(keyword, WORD) ==
    \/ WORD = keyword
    \/ keyword = "ESCALATE" /\ WORD = "ESCALATED"

\* keyword in rec.upper()
KeywordIn(keyword, rec) ==
    \E i \in DOMAIN rec : KeywordInWord(keyword, upper(rec[i]))

\* priority_keywords, in the order of the dict
priority_keywords ==
    << <<"REJECT", 1>>, <<"ESCALATE", 2>>, <<"VERIFY", 3>>, <<"REVIEW", 4>>,
       <<"FLAG", 5>>, <<"REQUEST", 6>>, <<"APPROVE", 7>> >>

\* get_priority: the priority of the first keyword of the dict found in the
\* recommendation, 10 when there is none
get_priority(rec) ==
    LET found == {k \in DOMAIN priority_keywords :
                    KeywordIn(priority_keywords[k][1], rec)}
    IN  IF found = {} THEN 10
        ELSE priority_keywords[CHOOSE k \in found : \A other \in found : k <= other][2]

\* all_recs: the recommendations of the verdicts, in the order of the list
RECURSIVE all_recs(_)
all_recs(verdicts) ==
    IF verdicts = <<>> THEN <<>>
    ELSE Head(verdicts).recommendations \o all_recs(Tail(verdicts))

\* list(dict.fromkeys(all_recs)): first occurrences, in order
RECURSIVE unique_recs(_, _)
unique_recs(recs, seen) ==
    IF recs = <<>> THEN <<>>
    ELSE IF Head(recs) \in seen THEN unique_recs(Tail(recs), seen)
    ELSE <<Head(recs)>> \o unique_recs(Tail(recs), seen \cup {Head(recs)})

\* The recommendations of recs whose key is the given priority, in order
RECURSIVE WithPriority(_, _, _, _)
WithPriority(recs, keys, priority, i) ==
    IF i > Len(recs) THEN <<>>
    ELSE IF keys[i] = priority
    THEN <<recs[i]>> \o WithPriority(recs, keys, priority, i + 1)
    ELSE WithPriority(recs, keys, priority, i + 1)

\* The sort keys of the recommendations, each computed once
RECURSIVE Keys(_)
Keys(recs) ==
    IF recs = <<>> THEN <<>>
    ELSE <<get_priority(Head(recs))>> \o Keys(Tail(recs))

\* sorted(unique_recs, key=get_priority): a stable sort
sorted_recs(verdicts) ==
    LET unique == unique_recs(all_recs(verdicts), {})
        keys == Keys(unique)
        RECURSIVE From(_)
        From(priority) ==
            IF priority > 10 THEN <<>>
            ELSE WithPriority(unique, keys, priority, 1) \o From(priority + 1)
    IN  From(1)

SyntheticReject == <<"REJECT", ":", "Multiple", "fraud", "indicators", "detected">>
SyntheticReview ==
    <<"REVIEW", ":", "Manual", "verification", "required", "before", "processing">>

\* xs[:10]
FirstTen(xs) == SubSeq(xs, 1, IF Len(xs) < 10 THEN Len(xs) ELSE 10)

\* Faulty variant: the review branch looks for REVIEW only
_consolidate_recommendations_review_only(verdicts, final_verdict) ==
    LET sorted == sorted_recs(verdicts)
    IN  FirstTen(
            IF final_verdict = "fraud"
            THEN IF ~\E i \in DOMAIN sorted : KeywordIn("REJECT", sorted[i])
                 THEN <<SyntheticReject>> \o sorted
                 ELSE sorted
            ELSE IF final_verdict = "review"
            THEN IF ~\E i \in DOMAIN sorted : KeywordIn("REVIEW", sorted[i])
                 THEN <<SyntheticReview>> \o sorted
                 ELSE sorted
            ELSE sorted)

_consolidate_recommendations(verdicts, final_verdict) ==
    LET sorted == sorted_recs(verdicts)
    IN  FirstTen(
            IF final_verdict = "fraud"
            THEN IF ~\E i \in DOMAIN sorted : KeywordIn("REJECT", sorted[i])
                 THEN <<SyntheticReject>> \o sorted
                 ELSE sorted
            ELSE IF final_verdict = "review"
            THEN IF ~\E i \in DOMAIN sorted :
                        \/ KeywordIn("REVIEW", sorted[i])
                        \/ KeywordIn("ESCALATE", sorted[i])
                 THEN <<SyntheticReview>> \o sorted
                 ELSE sorted
            ELSE sorted)

\* The recommendation lists a verdict carries: what the physical, the
\* transaction-history and the policy stage write, and answers of the
\* holistic stage's collaborator
RecommendationLists ==
    { <<>>,
      << <<"APPROVE", ":", "passed">> >>,
      << <<"REJECT", ":", "unsigned">>, <<"VERIFY", ":", "bank">>,
         <<"ESCALATE", ":", "forensics">>, <<"REQUEST", ":", "image">> >>,
      << <<"Contact", "holder">>, <<"Verify", "payee">>,
         <<"Review", "pattern">> >>,
      << <<"REVIEW", "per", "policy">>, <<"FLAG", "as", "suspicious">>,
         <<"REJECT", ":", "unsigned">> >>,
      << <<"do", "not", "reject">>, <<"history", "consistent">> >>,
      << <<"Manual", "review", "required">> >>,
      << <<"was", "escalated">>, <<"Contact", "holder">> >> }

FinalVerdicts == {"fraud", "not_fraud", "review"}

InitRecommendations ==
    /\ entry = "_consolidate_recommendations"
    /\ pc = "recommendations"
    /\ check = [has_watermark |-> TRUE, signature_present |-> TRUE,
                client_in_repository |-> TRUE]
    /\ weights = DEFAULT_WEIGHTS
    /\ state = [agent_verdicts |-> <<>>, final_verdict |-> "None"]
    /\ voting_result = NoVote
    /\ executed = <<>>
    /\ result = NoResult
    /\ raised = "None"
    /\ new_result = NoUpdate
    /\ NoPolicyEvaluation

\* One more verdict in the list handed to _consolidate_recommendations
AddRecommendingVerdict ==
    /\ entry = "_consolidate_recommendations" /\ pc = "recommendations"
    /\ Len(state.agent_verdicts) < MaxRecommendingVerdicts
    /\ \E recommendations \in RecommendationLists :
          state' = [state EXCEPT !.agent_verdicts =
                       Append(@, [recommendations |-> recommendations])]
    /\ UNCHANGED <<policy_vars, entry, pc, check, weights, voting_result, executed,
                   result, raised, new_result>>

\* all_recommendations = self._consolidate_recommendations(verdicts, final_verdict)
Consolidate ==
    /\ entry = "_consolidate_recommendations" /\ pc = "recommendations"
    /\ \E final_verdict \in FinalVerdicts :
          /\ state' = [state EXCEPT !.final_verdict = final_verdict]
          /\ voting_result' =
                [all_recommendations |->
                    _consolidate_recommendations(state.agent_verdicts, final_verdict)]
    /\ pc' = "consolidated"
    /\ UNCHANGED <<policy_vars, entry, check, weights, executed, result, raised,
                   new_result>>

NextRecommendations == AddRecommendingVerdict \/ Consolidate

SpecRecommendations == InitRecommendations /\ [][NextRecommendations]_vars

Consolidated == entry = "_consolidate_recommendations" /\ pc = "consolidated"

\* The string starts with the keyword, in any letter case
BeginsWith(keyword, rec) ==
    rec # <<>> /\ KeywordInWord(keyword, upper(rec[1]))

\* The returned list for a condition under which the synthetic
\* recommendation is prepended
Prepended(synthetic, when) ==
    LET sorted == sorted_recs(state.agent_verdicts)
    IN  FirstTen(IF when THEN <<synthetic>> \o sorted ELSE sorted)

\* C25 as stated: the synthetic REJECT recommendation is prepended exactly when
\* the final verdict is fraud and no consolidated recommendation begins with
\* REJECT, the synthetic REVIEW recommendation exactly when the final verdict
\* is review and none contains REVIEW or ESCALATE, and the returned list has
\* at most 10 entries.
C25_SyntheticRecommendations ==
    Consolidated =>
        LET sorted == sorted_recs(state.agent_verdicts)
            all_recommendations == voting_result.all_recommendations
        IN  /\ Len(all_recommendations) <= 10
            /\ state.final_verdict = "fraud" =>
                  all_recommendations =
                      Prepended(SyntheticReject,
                          ~\E i \in DOMAIN sorted : BeginsWith("REJECT", sorted[i]))
            /\ state.final_verdict = "review" =>
                  all_recommendations =
                      Prepended(SyntheticReview,
                          ~\E i \in DOMAIN sorted :
                              \/ KeywordIn("REVIEW", sorted[i])
                              \/ KeywordIn("ESCALATE", sorted[i]))
            /\ state.final_verdict = "not_fraud" =>
                  all_recommendations = FirstTen(sorted)

\* The recommendation has the word somewhere, in any letter case
Mentions(words, rec) == \E i \in DOMAIN rec : upper(rec[i]) \in words

\* C25, amended: the synthetic REJECT recommendation is prepended exactly when
\* the final verdict is fraud and no consolidated recommendation contains
\* REJECT anywhere, in any letter case; the synthetic REVIEW recommendation
\* exactly when the final verdict is review and none contains REVIEW or
\* ESCALATE anywhere, in any letter case; the returned list has at most 10
\* entries.
C25_SyntheticUnlessMentioned ==
    Consolidated =>
        LET sorted == sorted_recs(state.agent_verdicts)
            all_recommendations == voting_result.all_recommendations
        IN  /\ Len(all_recommendations) <= 10
            /\ state.final_verdict = "fraud" =>
                  all_recommendations =
                      Prepended(SyntheticReject,
                          ~\E i \in DOMAIN sorted :
                              Mentions({"REJECT"}, sorted[i]))
            /\ state.final_verdict = "review" =>
                  all_recommendations =
                      Prepended(SyntheticReview,
                          ~\E i \in DOMAIN sorted :
                              Mentions({"REVIEW", "ESCALATE", "ESCALATED"}, sorted[i]))
            /\ state.final_verdict = "not_fraud" =>
                  all_recommendations = FirstTen(sorted)

\* A fraud decision over a list whose only mention of REJECT is inside a
\* recommendation: nothing is prepended
C25_RejectInsideARecommendation ==
    /\ Consolidated
    /\ state.final_verdict = "fraud"
    /\ \E i \in DOMAIN voting_result.all_recommendations :
          voting_result.all_recommendations[i] = <<"do", "not", "reject">>
    /\ \A i \in DOMAIN voting_result.all_recommendations :
          /\ ~BeginsWith("REJECT", voting_result.all_recommendations[i])
          /\ voting_result.all_recommendations[i] # SyntheticReject

====
